---------------------------- MODULE Spec2Model ----------------------------
(***************************************************************************)
(* Model of the item extractor of edgar-crawler (src/extract_items.py).   *)
(*                                                                         *)
(* Texts, item identifiers and output keys are sequences of one-character  *)
(* strings, so that offsets are the character offsets Python computes      *)
(* (0-based; the character at offset p of t is t[p+1]).  The regular       *)
(* expressions of the source are kept as small syntax trees and matched    *)
(* with Python's backtracking priorities (greedy quantifiers, leftmost     *)
(* alternative first, lazy ".+?").                                         *)
(***************************************************************************)
EXTENDS Integers, Sequences, FiniteSets, TLC

(***************************************************************************)
(* Characters and strings                                                  *)
(***************************************************************************)
\* str.lower() of one character (re.IGNORECASE compares case-folded characters)
LowerOf ==
  [c \in {"A","B","C","D","E","F","G","H","I","J","K","L","M",
          "N","O","P","Q","R","S","T","U","V","W","X","Y","Z"} |->
     CASE c = "A" -> "a" [] c = "B" -> "b" [] c = "C" -> "c" [] c = "D" -> "d"
       [] c = "E" -> "e" [] c = "F" -> "f" [] c = "G" -> "g" [] c = "H" -> "h"
       [] c = "I" -> "i" [] c = "J" -> "j" [] c = "K" -> "k" [] c = "L" -> "l"
       [] c = "M" -> "m" [] c = "N" -> "n" [] c = "O" -> "o" [] c = "P" -> "p"
       [] c = "Q" -> "q" [] c = "R" -> "r" [] c = "S" -> "s" [] c = "T" -> "t"
       [] c = "U" -> "u" [] c = "V" -> "v" [] c = "W" -> "w" [] c = "X" -> "x"
       [] c = "Y" -> "y" [] OTHER -> "z"]

lower(c) == IF c \in DOMAIN LowerOf THEN LowerOf[c] ELSE c

\* \s of Python's re, restricted to the characters a text can hold
WS == {" ", "\n", "\t", "\r"}
\* [^\S\r\n]
HSpace == WS \ {"\r", "\n"}

Min(S) == CHOOSE x \in S : \A y \in S : x <= y
Max(S) == CHOOSE x \in S : \A y \in S : x >= y
Last(s) == s[Len(s)]

\* Python slice t[a:b]: a negative index counts from the end, and both
\* indices are clamped to 0..len(t)
SliceIndex(t, x) ==
  IF x < 0 THEN (IF x + Len(t) < 0 THEN 0 ELSE x + Len(t))
  ELSE IF x > Len(t) THEN Len(t) ELSE x

Slice(t, a, b) ==
  IF SliceIndex(t, b) <= SliceIndex(t, a) THEN <<>>
  ELSE SubSeq(t, SliceIndex(t, a) + 1, SliceIndex(t, b))

\* sub in s
StartsAt(s, sub, p) ==
  /\ p + Len(sub) <= Len(s)
  /\ \A j \in 1..Len(sub) : s[p + j] = sub[j]
Contains(s, sub) == \E p \in 0..(Len(s) - Len(sub)) : StartsAt(s, sub, p)

\* s.split(sep)
RECURSIVE split(_, _)
split(s, sep) ==
  LET ps == {p \in 0..(Len(s) - Len(sep)) : StartsAt(s, sep, p)}
  IN IF ps = {} THEN <<s>>
     ELSE LET p == Min(ps)
          IN <<Slice(s, 0, p)>> \o split(Slice(s, p + Len(sep), Len(s)), sep)

\* s.strip(): the indices of the first and of the last character that is
\* not whitespace
RECURSIVE SkipLeft(_, _)
SkipLeft(s, i) == IF i <= Len(s) /\ s[i] \in WS THEN SkipLeft(s, i + 1) ELSE i

RECURSIVE SkipRight(_, _)
SkipRight(s, i) == IF i >= 1 /\ s[i] \in WS THEN SkipRight(s, i - 1) ELSE i

strip(s) ==
  IF SkipLeft(s, 1) > Len(s) THEN <<>>
  ELSE SubSeq(s, SkipLeft(s, 1), SkipRight(s, Len(s)))

\* the number of newlines of the run of spaces and newlines that starts at
\* index i of text
RECURSIVE Newlines(_, _)
Newlines(text, i) ==
  IF i > Len(text) \/ text[i] \notin {" ", "\n"} THEN 0
  ELSE (IF text[i] = "\n" THEN 1 ELSE 0) + Newlines(text, i + 1)

\* remove_multiple_lines.  The four substitutions of the source act on the
\* maximal runs of spaces and newlines: a run holding two or more newlines
\* becomes "#NEWLINE" and then one "\n"; any other run ends as spaces, which
\* the last substitution (or nothing, for a single character) leaves as one
\* " "; strip() is applied before the last substitution.
remove_multiple_lines(text) ==
  strip(SelectSeq([i \in 1..Len(text) |->
                     IF text[i] \notin {" ", "\n"} THEN text[i]
                     ELSE IF i > 1 /\ text[i - 1] \in {" ", "\n"} THEN "drop"
                     ELSE IF Newlines(text, i) >= 2 THEN "\n" ELSE " "],
                  LAMBDA c : c # "drop"))

(***************************************************************************)
(* Regular expressions: a pattern is a sequence of atoms, an atom is a     *)
(* literal, a character class, "." (DOTALL) or a group of alternatives,    *)
(* with a quantifier "1", "?" or "*".                                      *)
(***************************************************************************)
Lit(c)   == [k |-> "lit", c |-> c,  s |-> {}, a |-> <<>>, q |-> "1"]
Cls(S)   == [k |-> "cls", c |-> "", s |-> S,  a |-> <<>>, q |-> "1"]
AnyChar  == [k |-> "any", c |-> "", s |-> {}, a |-> <<>>, q |-> "1"]
Alt(bs)  == [k |-> "alt", c |-> "", s |-> {}, a |-> bs,   q |-> "1"]
Opt(x)   == [x EXCEPT !.q = "?"]
Star(x)  == [x EXCEPT !.q = "*"]
Str(s)   == [i \in 1..Len(s) |-> Lit(s[i])]

CharOk(a, ch, ic) ==
  CASE a.k = "lit" -> IF ic THEN lower(ch) = lower(a.c) ELSE ch = a.c
    [] a.k = "cls" -> ch \in a.s
    [] OTHER       -> TRUE

\* Ends(re, t, p, ic): the offsets at which a match of re starting at offset
\* p of t can end, in the order in which Python's backtracking tries them;
\* the match Python reports ends at the first one.  ic is re.IGNORECASE.
RECURSIVE Ends(_, _, _, _), EndsAlt(_, _, _, _), EndsFromAll(_, _, _, _)
EndsAlt(bs, t, p, ic) ==
  IF bs = <<>> THEN <<>>
  ELSE Ends(Head(bs), t, p, ic) \o EndsAlt(Tail(bs), t, p, ic)

EndsFromAll(es, re, t, ic) ==
  IF es = <<>> THEN <<>>
  ELSE Ends(re, t, Head(es), ic) \o EndsFromAll(Tail(es), re, t, ic)

Ends(re, t, p, ic) ==
  IF re = <<>> THEN <<p>>
  ELSE LET a    == Head(re)
           rest == Tail(re)
           one  == IF a.k = "alt" THEN EndsAlt(a.a, t, p, ic)
                   ELSE IF p < Len(t) /\ CharOk(a, t[p + 1], ic)
                        THEN <<p + 1>> ELSE <<>>
       IN CASE a.q = "1" -> EndsFromAll(one, rest, t, ic)
            [] a.q = "?" -> EndsFromAll(one, rest, t, ic) \o Ends(rest, t, p, ic)
            [] OTHER     -> EndsFromAll(SelectSeq(one, LAMBDA e : e > p), re, t, ic)
                            \o Ends(rest, t, p, ic)

\* Every pattern of the source starts with a literal "\n": a match can only
\* start at a newline.
NewlineOffsets(t) == {p \in 0..(Len(t) - 1) : t[p + 1] = "\n"}
MatchStarts(re, t, ic) == {p \in NewlineOffsets(t) : Ends(re, t, p, ic) # <<>>}

\* re.finditer(re, t[from:]): the non-overlapping matches, leftmost first,
\* as records of offsets relative to `from`.
RECURSIVE ScanMatches(_, _, _, _, _, _), ScanMatch(_, _, _, _, _, _, _)
ScanMatches(S, re, t, ic, from, cur) ==
  IF \A p \in S : p < cur THEN <<>>
  ELSE ScanMatch(S, re, t, ic, from, Min({p \in S : p >= cur}),
                 Ends(re, t, Min({p \in S : p >= cur}), ic)[1])

ScanMatch(S, re, t, ic, from, p, e) ==
  <<[start |-> p - from, end |-> e - from, g1 |-> e - from]>>
  \o ScanMatches(S, re, t, ic, from, e)

finditer(re, t, ic) == ScanMatches(MatchStarts(re, t, ic), re, t, ic, 0, 0)


\* finditer of  A .+? ( B )  over t[from:]: for each way A can end (in
\* backtracking order) the lazy ".+?" takes one character and then as few
\* more as needed to reach a match of the group B; g1 is the start of the
\* group (match.regs[1][0]), end the end of the whole match.  BS holds the
\* offsets at which B matches, es the ends of A.
PairTo(B, t, p, g, ic) ==
  <<[start |-> p, g1 |-> g, end |-> Ends(B, t, g, ic)[1]]>>

PairFrom(es, B, BS, t, p, ic) ==
  IF \A j \in 1..Len(es) : \A g \in BS : g < es[j] + 1
  THEN <<>>
  ELSE PairTo(B, t, p,
              Min({x \in BS :
                     x >= es[Min({j \in 1..Len(es) : \E g \in BS : g >= es[j] + 1})] + 1}),
              ic)

PairAt(A, B, BS, t, p, ic) == PairFrom(Ends(A, t, p, ic), B, BS, t, p, ic)

RECURSIVE ScanPairs(_, _, _, _, _, _, _, _), ScanPair(_, _, _, _, _, _, _, _)
ScanPairs(S, A, B, BS, t, ic, from, cur) ==
  IF \A p \in S : p < cur THEN <<>>
  ELSE ScanPair(S, A, B, BS, t, ic, from,
                PairAt(A, B, BS, t, Min({p \in S : p >= cur}), ic)[1])

ScanPair(S, A, B, BS, t, ic, from, m) ==
  <<[start |-> m.start - from, end |-> m.end - from, g1 |-> m.g1 - from]>>
  \o ScanPairs(S, A, B, BS, t, ic, from, m.end)

PairsOver(A, B, BS, t, ic, from) ==
  ScanPairs({p \in NewlineOffsets(t) : p >= from /\ PairAt(A, B, BS, t, p, ic) # <<>>},
            A, B, BS, t, ic, from, from)

finditer_pair(A, B, t, ic, from) == PairsOver(A, B, MatchStarts(B, t, ic), t, ic, from)

(***************************************************************************)
(* Item identifiers and schemas (src/item_lists.py)                        *)
(***************************************************************************)
SIGNATURE == <<"S","I","G","N","A","T","U","R","E">>
part_1 == <<"p","a","r","t","_","1">>
part_2 == <<"p","a","r","t","_","2">>
\* the compound identifier <part>__<item>
PartItem(part, item) == part \o <<"_","_">> \o item

item_list_10k ==
  << <<"1">>, <<"1","A">>, <<"1","B">>, <<"1","C">>, <<"2">>, <<"3">>, <<"4">>,
     <<"5">>, <<"6">>, <<"7">>, <<"7","A">>, <<"8">>, <<"9">>, <<"9","A">>,
     <<"9","B">>, <<"9","C">>, <<"1","0">>, <<"1","1">>, <<"1","2">>,
     <<"1","3">>, <<"1","4">>, <<"1","5">>, <<"1","6">>, SIGNATURE >>

item_list_8k ==
  << <<"1",".","0","1">>, <<"1",".","0","2">>, <<"1",".","0","3">>,
     <<"1",".","0","4">>, <<"1",".","0","5">>, <<"2",".","0","1">>,
     <<"2",".","0","2">>, <<"2",".","0","3">>, <<"2",".","0","4">>,
     <<"2",".","0","5">>, <<"2",".","0","6">>, <<"3",".","0","1">>,
     <<"3",".","0","2">>, <<"3",".","0","3">>, <<"4",".","0","1">>,
     <<"4",".","0","2">>, <<"5",".","0","1">>, <<"5",".","0","2">>,
     <<"5",".","0","3">>, <<"5",".","0","4">>, <<"5",".","0","5">>,
     <<"5",".","0","6">>, <<"5",".","0","7">>, <<"5",".","0","8">>,
     <<"6",".","0","1">>, <<"6",".","0","2">>, <<"6",".","0","3">>,
     <<"6",".","0","4">>, <<"6",".","0","5">>, <<"7",".","0","1">>,
     <<"8",".","0","1">>, <<"9",".","0","1">>, SIGNATURE >>

item_list_8k_obsolete ==
  << <<"1">>, <<"2">>, <<"3">>, <<"4">>, <<"5">>, <<"6">>, <<"7">>, <<"8">>,
     <<"9">>, <<"1","0">>, <<"1","1">>, <<"1","2">>, SIGNATURE >>

item_list_10q ==
  << PartItem(part_1, <<"1">>), PartItem(part_1, <<"2">>),
     PartItem(part_1, <<"3">>), PartItem(part_1, <<"4">>),
     PartItem(part_2, <<"1">>), PartItem(part_2, <<"1","A">>),
     PartItem(part_2, <<"2">>), PartItem(part_2, <<"3">>),
     PartItem(part_2, <<"4">>), PartItem(part_2, <<"5">>),
     PartItem(part_2, <<"6">>), SIGNATURE >>

item_list_form3 ==
  << <<"1">>, <<"2">>, <<"3">>, <<"4">>, <<"5">>,
     <<"T","a","b","l","e"," ","I">>, <<"T","a","b","l","e"," ","I","I">>,
     <<"N","o","t","e","s">>, <<"R","e","m","a","r","k","s">>, SIGNATURE >>

item_list_form4 == item_list_form3

item_list_sc13d ==
  << <<"1">>, <<"2">>, <<"3">>, <<"4">>, <<"5">>, <<"6">>, <<"7">>, SIGNATURE >>

item_list_sc13g == item_list_sc13d

\* s in list
InList(s, list) == \E i \in 1..Len(list) : list[i] = s

roman_numeral_map ==
  ( <<"1">> :> <<"I">> ) @@ ( <<"2">> :> <<"I","I">> ) @@
  ( <<"3">> :> <<"I","I","I">> ) @@ ( <<"4">> :> <<"I","V">> ) @@
  ( <<"5">> :> <<"V">> ) @@ ( <<"6">> :> <<"V","I">> ) @@
  ( <<"7">> :> <<"V","I","I">> ) @@ ( <<"8">> :> <<"V","I","I","I">> ) @@
  ( <<"9">> :> <<"I","X">> ) @@ ( <<"1","0">> :> <<"X">> ) @@
  ( <<"1","1">> :> <<"X","I">> ) @@ ( <<"1","2">> :> <<"X","I","I">> ) @@
  ( <<"1","3">> :> <<"X","I","I","I">> ) @@ ( <<"1","4">> :> <<"X","I","V">> ) @@
  ( <<"1","5">> :> <<"X","V">> ) @@ ( <<"1","6">> :> <<"X","V","I">> ) @@
  ( <<"1","7">> :> <<"X","V","I","I">> ) @@
  ( <<"1","8">> :> <<"X","V","I","I","I">> ) @@
  ( <<"1","9">> :> <<"X","I","X">> ) @@ ( <<"2","0">> :> <<"X","X">> )

(***************************************************************************)
(* Pattern Builder                                                         *)
(***************************************************************************)
\* The pattern string of adjust_item_patterns, as a syntax tree.  The
\* whitespace-tolerant replacement of a letter suffix (lines 805-815) is
\* stored in item_index_pattern and then overwritten at line 829 by the
\* pattern built from item_index, so it does not reach the result.
adjust_item_patterns(item_index) ==
  LET is_part  == Contains(item_index, <<"p","a","r","t">>)
      compound == Contains(item_index, <<"_","_">>)
      idx      == IF is_part /\ compound THEN split(item_index, <<"_","_">>)[2]
                  ELSE item_index
  IN IF is_part /\ ~compound
     THEN LET item_index_number == split(item_index, <<"_">>)[2]
          IN Str(<<"P","A","R","T">>) \o <<Star(Cls(WS))>>
             \o <<Alt(<<Str(roman_numeral_map[item_index_number]),
                        Str(item_index_number)>>)>>
     ELSE IF idx = SIGNATURE
     THEN Str(SIGNATURE) \o <<Opt(Alt(<<Str(<<"s">>), Str(<<"(","s",")">>)>>))>>
     ELSE Str(<<"I","T","E","M">>) \o <<Opt(Lit("S")), Star(Cls(WS))>>
          \o (IF idx \in DOMAIN roman_numeral_map
              THEN <<Alt(<<Str(roman_numeral_map[idx]), Str(idx)>>)>>
              ELSE Str(idx))

\* "PART" in item_index_pattern
HasPART(pattern) ==
  \E p \in 0..(Len(pattern) - 4) :
    \A j \in 1..4 : /\ pattern[p + j].k = "lit"
                    /\ pattern[p + j].q = "1"
                    /\ pattern[p + j].c = <<"P","A","R","T">>[j]

\* [.*~\-:\s\(]   [.*~\-:\s\()]   [.\-:\s]
DelimHeading == {".", "*", "~", "-", ":", "("} \cup WS
DelimPair == DelimHeading \cup {")"}
DelimLast == {".", "-", ":"} \cup WS

\* \n[^\S\r\n]*{pattern}[delim]
HeadingRe(pattern, delim) ==
  <<Lit("\n"), Star(Cls(HSpace))>> \o pattern \o <<Cls(delim)>>

(***************************************************************************)
(* Section Boundary Resolver                                               *)
(***************************************************************************)
\* possible_sections_list, a sequence of [offset, matches], as the sequence
\* of its [offset, match] in the order of the two loops of get_item_section
RECURSIVE Candidates(_, _)
Candidates(possible_sections_list, j) ==
  IF j > Len(possible_sections_list) THEN <<>>
  ELSE [n \in 1..Len(possible_sections_list[j].matches) |->
          [offset |-> possible_sections_list[j].offset,
           match  |-> possible_sections_list[j].matches[n]]]
       \o Candidates(possible_sections_list, j + 1)

\* Longer without the comparison with the last recorded position
LongerAnywhere(cand, positions, max) ==
  cand.match.end - cand.match.start > max.length

\* the test of lines 949-958: the candidate is strictly longer than the
\* longest so far and does not start before the last recorded position
Longer(cand, positions, max) ==
  /\ cand.match.end - cand.match.start > max.length
  /\ positions # <<>> => cand.offset + cand.match.start >= Last(positions)

\* the loops of lines 946-958; max is [found, match, offset, length]
RECURSIVE max_match(_, _, _, _)
max_match(cands, positions, j, max) ==
  IF j > Len(cands) THEN max
  ELSE max_match(cands, positions, j + 1,
                 IF Longer(cands[j], positions, max)
                 THEN [found |-> TRUE, match |-> cands[j].match,
                       offset |-> cands[j].offset,
                       length |-> cands[j].match.end - cands[j].match.start]
                 ELSE max)

\* SelectedSection with the slice taken up to the end of the whole match, so
\* that the section swallows the next heading
SelectedSectionThroughNext(text, positions, max) ==
  [item_section |-> IF max.found
                    THEN Slice(text, max.offset + max.match.start,
                               max.offset + max.match.end)
                    ELSE <<>>,
   positions    |-> IF max.found
                    THEN Append(positions, max.offset + max.match.end - 1)
                    ELSE positions,
   span_start   |-> IF max.found THEN max.offset + max.match.start ELSE -1,
   span_end     |-> IF max.found THEN max.offset + max.match.g1 ELSE -1]

\* lines 960-972: the section of the selected candidate and the ledger
SelectedSection(text, positions, max) ==
  [item_section |-> IF max.found
                       /\ (positions # <<>> =>
                             max.offset + max.match.start >= Last(positions))
                    THEN Slice(text, max.offset + max.match.start,
                               max.offset + max.match.g1)
                    ELSE <<>>,
   positions    |-> IF max.found
                    THEN Append(positions,
                                max.offset + max.match.end
                                - (max.match.end - max.match.g1) - 1)
                    ELSE positions,
   span_start   |-> IF max.found
                       /\ (positions # <<>> =>
                             max.offset + max.match.start >= Last(positions))
                    THEN max.offset + max.match.start ELSE -1,
   span_end     |-> IF max.found
                       /\ (positions # <<>> =>
                             max.offset + max.match.start >= Last(positions))
                    THEN max.offset + max.match.g1 ELSE -1]

\* get_item_section: the longest candidate that does not start before the
\* last recorded position.  The result also reports the offsets of the
\* selected span (span_start, span_end; -1 when no section is returned).
get_item_section(possible_sections_list, text, positions) ==
  SelectedSection(text, positions,
    max_match(Candidates(possible_sections_list, 1), positions, 1,
              [found |-> FALSE, match |-> [start |-> 0, end |-> 0, g1 |-> 0],
               offset |-> 0, length |-> 0]))

\* the loop of get_last_item_section (lines 997-1008): the first occurrence
\* that may be used, for SIGNATURE the last one only
LastSection(item_index, text, positions, item_list, usable) ==
  IF usable = {}
  THEN [item_section |-> <<>>, start |-> -1]
  ELSE [item_section |-> strip(Slice(text, item_list[Min(usable)].start, Len(text))),
        start        |-> item_list[Min(usable)].start]

LastSectionOf(item_index, text, positions, item_list) ==
  LastSection(item_index, text, positions, item_list,
              {j \in 1..Len(item_list) :
                 /\ Contains(item_index, SIGNATURE) => j = Len(item_list)
                 /\ positions # <<>> => item_list[j].start >= Last(positions)})

\* get_last_item_section: the text from an occurrence of the item to the end
\* of the text; start is the offset of that occurrence (-1 when none).
get_last_item_section(item_index, text, positions) ==
  LastSectionOf(item_index, text, positions,
                finditer(HeadingRe(adjust_item_patterns(item_index), DelimLast)
                         \o <<AnyChar>>, text, TRUE))

\* a or b  (Python's "or" on lists)
OrElse(a, b) == IF a # <<>> THEN a ELSE b

\* lines 888-903: the candidate spans from one occurrence of the item, by the
\* case-sensitive search first and by the case-insensitive one if it finds
\* nothing
\* possible without the case-sensitive search of lines 892-896
possible_ignoring_case(text, item_index_pattern, next_item_index_pattern, offset) ==
  finditer_pair(HeadingRe(item_index_pattern, DelimPair),
                HeadingRe(next_item_index_pattern, DelimHeading),
                text, TRUE, offset)

possible(text, item_index_pattern, next_item_index_pattern, offset) ==
  OrElse(finditer_pair(HeadingRe(item_index_pattern, DelimPair),
                       HeadingRe(next_item_index_pattern, DelimHeading),
                       text, FALSE, offset),
         finditer_pair(HeadingRe(item_index_pattern, DelimPair),
                       HeadingRe(next_item_index_pattern, DelimHeading),
                       text, TRUE, offset))

\* lines 905-908; st holds possible_sections_list, impossible_match,
\* last_item and err (the code raises)
AfterMatch(st, offset, candidates, is_last) ==
  IF candidates # <<>>
  THEN [st EXCEPT !.possible_sections_list =
                     Append(@, [offset |-> offset, matches |-> candidates])]
  ELSE IF is_last /\ st.possible_sections_list = <<>>
  THEN [st EXCEPT !.impossible_match = TRUE]
  ELSE st

\* the loop over matches (lines 886-908) for one next item
RECURSIVE OverMatches(_, _, _, _, _, _, _, _)
OverMatches(text, matches, ignore_matches, item_index_pattern, next_item_index_pattern, is_last, i, st) ==
  IF i > Len(matches) THEN st
  ELSE OverMatches(text, matches, ignore_matches, item_index_pattern,
                   next_item_index_pattern, is_last, i + 1,
                   IF i - 1 < ignore_matches THEN st
                   ELSE AfterMatch(st, matches[i].start,
                                   possible(text, item_index_pattern,
                                            next_item_index_pattern, matches[i].start),
                                   is_last))

\* "part" in item_index and "PART" not in item_index_pattern
HasPartNumber(item_index) ==
  /\ Contains(item_index, <<"p","a","r","t">>)
  /\ ~HasPART(adjust_item_patterns(item_index))

\* OverNext without the break of lines 866-867: every later identifier is
\* tried, also after one of them gave candidates
RECURSIVE OverNextAll(_, _, _, _, _, _, _)
OverNextAll(text, item_index, next_item_list, matches, ignore_matches, n, st) ==
  IF st.err \/ n > Len(next_item_list) THEN st
  ELSE IF HasPartNumber(next_item_list[n]) /\ ~HasPartNumber(item_index)
  THEN [st EXCEPT !.err = TRUE]
  ELSE IF /\ HasPartNumber(next_item_list[n])
          /\ split(next_item_list[n], <<"_","_">>)[1] # split(item_index, <<"_","_">>)[1]
  THEN [st EXCEPT !.last_item = TRUE]
  ELSE OverNextAll(text, item_index, next_item_list, matches, ignore_matches, n + 1,
                   OverMatches(text, matches, ignore_matches,
                               adjust_item_patterns(item_index),
                               adjust_item_patterns(next_item_list[n]),
                               next_item_list[n] = Last(next_item_list), 1,
                               [st EXCEPT !.last_item =
                                            (next_item_list[n] = Last(next_item_list))]))

\* the loop over next_item_list (lines 865-908).  err is set when
\* item_index_part_number is read at line 876 without having been assigned
\* at line 859.
RECURSIVE OverNext(_, _, _, _, _, _, _)
OverNext(text, item_index, next_item_list, matches, ignore_matches, n, st) ==
  IF n > Len(next_item_list) THEN st
  ELSE IF st.possible_sections_list # <<>>
  THEN [st EXCEPT !.last_item = FALSE]
  ELSE IF HasPartNumber(next_item_list[n]) /\ ~HasPartNumber(item_index)
  THEN [st EXCEPT !.err = TRUE]
  ELSE IF /\ HasPartNumber(next_item_list[n])
          /\ split(next_item_list[n], <<"_","_">>)[1] # split(item_index, <<"_","_">>)[1]
  THEN [st EXCEPT !.last_item = TRUE]
  ELSE OverNext(text, item_index, next_item_list, matches, ignore_matches, n + 1,
                OverMatches(text, matches, ignore_matches,
                            adjust_item_patterns(item_index),
                            adjust_item_patterns(next_item_list[n]),
                            next_item_list[n] = Last(next_item_list), 1,
                            [st EXCEPT !.last_item =
                                         (next_item_list[n] = Last(next_item_list))]))

\* lines 913-920: whether get_last_item_section gives the section
UseLast(item_index, items_list, st, sel) ==
  IF sel.positions # <<>>
  THEN \/ InList(item_index, items_list) /\ sel.item_section = <<>>
       \/ item_index = SIGNATURE
  ELSE (st.impossible_match \/ st.last_item) /\ InList(item_index, items_list)

\* the result of parse_item: the section and the ledger, and for the
\* properties which path produced the section (kind), the offsets of its
\* span, whether the item's heading occurs and whether it has candidates
Resolved(text, st, sel, last, use_last, matches) ==
  [item_section |-> IF use_last THEN last.item_section ELSE sel.item_section,
   positions    |-> sel.positions,
   err          |-> FALSE,
   kind         |-> IF use_last
                    THEN (IF last.start >= 0 THEN "open" ELSE "none")
                    ELSE (IF sel.span_start >= 0 THEN "span" ELSE "none"),
   span_start   |-> IF use_last THEN last.start ELSE sel.span_start,
   span_end     |-> IF use_last
                    THEN (IF last.start >= 0 THEN Len(text) ELSE -1)
                    ELSE sel.span_end,
   occurs       |-> matches # <<>>,
   candidates   |-> st.possible_sections_list # <<>>]

\* lines 910-922
AfterSelection(text, item_index, items_list, matches, st, sel) ==
  Resolved(text, st, sel, get_last_item_section(item_index, text, sel.positions),
           UseLast(item_index, items_list, st, sel), matches)

\* AfterLoops reading possible_sections_list[0] without testing that the
\* list has an element: it raises when there is no candidate
AfterLoopsUnguarded(text, item_index, positions, items_list, matches, st) ==
  IF st.err \/ st.possible_sections_list = <<>>
  THEN [item_section |-> <<>>, positions |-> positions, err |-> TRUE,
        kind |-> "error", span_start |-> -1, span_end |-> -1,
        occurs |-> matches # <<>>, candidates |-> FALSE]
  ELSE AfterSelection(text, item_index, items_list, matches, st,
                      get_item_section(st.possible_sections_list, text, positions))

AfterLoops(text, item_index, positions, items_list, matches, st) ==
  IF st.err
  THEN [item_section |-> <<>>, positions |-> positions, err |-> TRUE,
        kind |-> "error", span_start |-> -1, span_end |-> -1,
        occurs |-> matches # <<>>, candidates |-> FALSE]
  ELSE AfterSelection(text, item_index, items_list, matches, st,
                      get_item_section(st.possible_sections_list, text, positions))

WithMatches(text, item_index, next_item_list, positions, ignore_matches, items_list, matches) ==
  AfterLoops(text, item_index, positions, items_list, matches,
             OverNext(text, item_index, next_item_list, matches, ignore_matches, 1,
                      [possible_sections_list |-> <<>>, impossible_match |-> FALSE,
                       last_item |-> TRUE, err |-> FALSE]))

\* parse_item
parse_item(text, item_index, next_item_list, positions, ignore_matches, items_list) ==
  WithMatches(text, item_index, next_item_list, positions, ignore_matches, items_list,
              finditer(HeadingRe(adjust_item_patterns(item_index), DelimHeading),
                       text, TRUE))

(***************************************************************************)
(* Part Partitioner (10-Q)                                                 *)
(***************************************************************************)
\* the distinct part markers of a schema, in order (get_10q_parts, 1092-1096)
RECURSIVE PartsOf(_, _)
PartsOf(list, parts) ==
  IF list = <<>> THEN parts
  ELSE LET part == split(Head(list), <<"_","_">>)[1]
       IN PartsOf(Tail(list), IF InList(part, parts) THEN parts ELSE Append(parts, part))

\* parse_10q_parts: self.items_list is the list of parts while it runs
RECURSIVE parse_10q_parts_from(_, _, _, _, _, _), parse_10q_part(_, _, _, _, _, _)
parse_10q_parts_from(parts, text, ignore_matches, n, texts, part_positions) ==
  IF n > Len(parts) THEN [texts |-> texts, part_positions |-> part_positions]
  ELSE parse_10q_part(parts, text, ignore_matches, n, texts,
                      parse_item(text, parts[n], SubSeq(parts, n + 1, Len(parts)),
                                 part_positions, ignore_matches, parts))

parse_10q_part(parts, text, ignore_matches, n, texts, r) ==
  parse_10q_parts_from(parts, text, ignore_matches, n + 1,
                       (parts[n] :> r.item_section) @@ texts, r.positions)

parse_10q_parts(parts, text, ignore_matches) ==
  parse_10q_parts_from(parts, text, ignore_matches, 1, <<>>, <<>>)

\* the slack of repair (b), line 1067
PartSlack == 200
\* the imbalance of repair (c), line 1105
PartImbalance == 5000

check_10q_parts_for_bugs(text, texts, part_positions) ==
  IF part_positions = <<>> \/ DOMAIN texts = {}
  THEN texts
  ELSE IF texts[part_1] = <<>>
  THEN [texts EXCEPT ![part_1] =
          Slice(text, 0, part_positions[1] - Len(texts[part_2]))]
  ELSE IF Len(part_positions) > 1
          /\ part_positions[2] - Len(texts[part_2]) - part_positions[1] > PartSlack
  THEN [texts EXCEPT ![part_1] =
          Slice(text, part_positions[1] - Len(texts[part_1]),
                part_positions[2] - Len(texts[part_2]))]
  ELSE texts

(***************************************************************************)
(* Filing Assembler                                                        *)
(***************************************************************************)
\* pd.to_datetime("2004-08-23"), dates being the integer yyyymmdd
obsolete_cutoff_date_8k == 20040823

\* determine_items_to_extract looking the configured items up in
\* self.items_list, the schema of the filing before, instead of in the schema
\* of this filing
determine_items_to_extract_stale(self_items_list, self_items_to_extract, filing_metadata) ==
  LET type == filing_metadata.Type
      list == CASE type = "10-K" -> item_list_10k
                [] type = "8-K"  -> IF filing_metadata.Date > obsolete_cutoff_date_8k
                                    THEN item_list_8k ELSE item_list_8k_obsolete
                [] type = "10-Q" -> item_list_10q
                [] type = "3"    -> item_list_form3
                [] type = "4"    -> item_list_form4
                [] type \in {"SC13D", "SC13D/A"} -> item_list_sc13d
                [] OTHER -> item_list_sc13g
      overlapping_items ==
        SelectSeq(self_items_to_extract, LAMBDA item : InList(item, self_items_list))
  IN IF type \notin {"10-K", "8-K", "10-Q", "3", "4",
                     "SC13D", "SC13D/A", "SC13G", "SC13G/A"}
     THEN [raised |-> TRUE, items_list |-> self_items_list,
           items_to_extract |-> self_items_to_extract]
     ELSE IF self_items_to_extract # <<>>
     THEN IF overlapping_items # <<>>
          THEN [raised |-> FALSE, items_list |-> list,
                items_to_extract |-> overlapping_items]
          ELSE [raised |-> TRUE, items_list |-> list,
                items_to_extract |-> self_items_to_extract]
     ELSE [raised |-> FALSE, items_list |-> list, items_to_extract |-> list]

\* determine_items_to_extract falling back on the whole schema when none of
\* the configured items is in it, instead of raising
determine_items_to_extract_lenient(self_items_list, self_items_to_extract, filing_metadata) ==
  LET type == filing_metadata.Type
      list == CASE type = "10-K" -> item_list_10k
                [] type = "8-K"  -> IF filing_metadata.Date > obsolete_cutoff_date_8k
                                    THEN item_list_8k ELSE item_list_8k_obsolete
                [] type = "10-Q" -> item_list_10q
                [] type = "3"    -> item_list_form3
                [] type = "4"    -> item_list_form4
                [] type \in {"SC13D", "SC13D/A"} -> item_list_sc13d
                [] OTHER -> item_list_sc13g
      overlapping_items == SelectSeq(self_items_to_extract, LAMBDA item : InList(item, list))
  IN IF type \notin {"10-K", "8-K", "10-Q", "3", "4",
                     "SC13D", "SC13D/A", "SC13G", "SC13G/A"}
     THEN [raised |-> TRUE, items_list |-> self_items_list,
           items_to_extract |-> self_items_to_extract]
     ELSE [raised |-> FALSE, items_list |-> list,
           items_to_extract |-> IF overlapping_items # <<>>
                                THEN overlapping_items ELSE list]

\* determine_items_to_extract: the new values of self.items_list and
\* self.items_to_extract, and whether the call raised
determine_items_to_extract(self_items_list, self_items_to_extract, filing_metadata) ==
  LET type == filing_metadata.Type
      known == type \in {"10-K", "8-K", "10-Q", "3", "4",
                         "SC13D", "SC13D/A", "SC13G", "SC13G/A"}
      list == CASE type = "10-K" -> item_list_10k
                [] type = "8-K"  -> IF filing_metadata.Date > obsolete_cutoff_date_8k
                                    THEN item_list_8k ELSE item_list_8k_obsolete
                [] type = "10-Q" -> item_list_10q
                [] type = "3"    -> item_list_form3
                [] type = "4"    -> item_list_form4
                [] type \in {"SC13D", "SC13D/A"} -> item_list_sc13d
                [] OTHER -> item_list_sc13g
      overlapping_items == SelectSeq(self_items_to_extract, LAMBDA item : InList(item, list))
  IN IF ~known
     THEN [raised |-> TRUE, items_list |-> self_items_list,
           items_to_extract |-> self_items_to_extract]
     ELSE IF self_items_to_extract # <<>>
     THEN IF overlapping_items # <<>>
          THEN [raised |-> FALSE, items_list |-> list,
                items_to_extract |-> overlapping_items]
          ELSE [raised |-> TRUE, items_list |-> list,
                items_to_extract |-> self_items_to_extract]
     ELSE [raised |-> FALSE, items_list |-> list, items_to_extract |-> list]

\* the output key of an item (extract_items, lines 1243-1249)
OutputKey(item_index, include_signature) ==
  IF item_index = SIGNATURE /\ include_signature
  THEN item_index
  ELSE IF Contains(item_index, <<"p","a","r","t">>)
  THEN split(item_index, <<"_","_">>)[1] \o <<"_","i","t","e","m","_">>
       \o split(item_index, <<"_","_">>)[2]
  ELSE <<"i","t","e","m","_">> \o item_index

\* OutputPath that takes the second field of the file name, the extension,
\* instead of the first
OutputPathOfExtension(filing_metadata) ==
  <<filing_metadata.Type,
    split(filing_metadata.filename, <<".">>)[2] \o <<".","j","s","o","n">>>>

\* <extracted_files_folder>/<Type>/<filename.split(".")[0]>.json
OutputPath(filing_metadata) ==
  <<filing_metadata.Type,
    split(filing_metadata.filename, <<".">>)[1] \o <<".","j","s","o","n">>>>

(***************************************************************************)
(* State                                                                   *)
(***************************************************************************)
VARIABLES
  \* the ExtractItems object
  items_to_extract, items_list, include_signature, skip_extracted_filings,
  \* the batch: the filings handed to process_filing one after the other, the
  \* index of the current one, the values returned so far, the output folder
  filings, cur, processed, out_files, remove_tables,
  \* the position inside process_filing / extract_items and their locals
  pc, text, part_texts, ignore_matches, length_difference,
  positions, i, json_content, all_items_null,
  \* history: the items_to_extract given to the constructor, and for every
  \* item resolved in the current filing what parse_item did
  configured_items, resolved

VARIABLES
  \* download_filings.main: the position in main, the new indices (df), the
  \* rows kept from the old metadata (old_df), the filings still to crawl,
  \* the rows of the filings crawled in this run, the metadata file and the
  \* temporary file, the raw files on disk, and the metadata file as main
  \* found it
  d_pc, df, old_df, list_of_series, final_series, metadata_file, temp_file,
  raw_files, found_metadata

download_vars == <<d_pc, df, old_df, list_of_series, final_series, metadata_file,
                   temp_file, raw_files, found_metadata>>

vars == <<items_to_extract, items_list, include_signature, skip_extracted_filings,
          filings, cur, processed, out_files, remove_tables,
          pc, text, part_texts, ignore_matches, length_difference,
          positions, i, json_content, all_items_null,
          configured_items, resolved, download_vars>>

self_vars == <<items_to_extract, items_list>>
config_vars == <<include_signature, skip_extracted_filings, configured_items, filings,
                 remove_tables>>
local_vars == <<text, part_texts, ignore_matches, length_difference,
                positions, i, json_content, all_items_null, resolved>>

\* The document of a filing is held as its normalized text with every table
\* in it (raw) and the tables as the spans [from, to) of raw that they
\* occupy; colored says that a row or cell of the table has a background
\* other than white (lines 676-719).
\* the delimiters that end a heading in the text of a table (line 667)
DelimTable == {".", "*", "~", "-", ":"} \cup WS

\* lines 662-674: a heading of an item of self.items_list stands in the text
\* of the table
item_index_found(tbl_text, list) ==
  \E n \in 1..Len(list) : \E p \in NewlineOffsets(tbl_text) :
    Ends(HeadingRe(adjust_item_patterns(list[n]), DelimTable), tbl_text, p, TRUE) # <<>>

\* the tables that remove_html_tables takes out: in markup the colored
\* tables without a heading (lines 656-722), in plain text every table
\* (line 726)
RemovedTables(filing, list) ==
  {n \in 1..Len(filing.tables) :
     filing.is_html
     => /\ ~item_index_found(Slice(filing.raw, filing.tables[n].from,
                                   filing.tables[n].to), list)
        /\ filing.tables[n].colored}

\* the characters of t at the indices ks
Pick(t, ks) == [j \in 1..Len(ks) |-> t[ks[j]]]

Outside(filing, removed, k) ==
  \A n \in removed : ~(filing.tables[n].from < k /\ k <= filing.tables[n].to)

KeptIndices(filing, removed) ==
  SelectSeq([k \in 1..Len(filing.raw) |-> k], LAMBDA k : Outside(filing, removed, k))

\* remove_html_tables followed by strip_html and clean_text: the text of the
\* document without the tables taken out
remove_html_tables(filing, list) ==
  IF RemovedTables(filing, list) = {} THEN filing.raw
  ELSE Pick(filing.raw, KeptIndices(filing, RemovedTables(filing, list)))

XmlTypes == {"3", "4", "SC13D", "SC13D/A", "SC13G", "SC13G/A"}

\* the locals between two calls of process_filing
NoLocals ==
  /\ pc' = "idle"
  /\ text' = <<>>
  /\ part_texts' = <<>>
  /\ ignore_matches' = 0
  /\ length_difference' = 0
  /\ positions' = <<>>
  /\ i' = 0
  /\ json_content' = <<>>
  /\ all_items_null' = TRUE
  /\ resolved' = <<>>

\* process_filing returns value
Return(value) ==
  /\ processed' = Append(processed, value)
  /\ cur' = cur + 1
  /\ NoLocals

\* json.dump(json_content) into the output file of the current filing
WriteFile(content) ==
  out_files' = (OutputPath(filings[cur]) :> [filing |-> cur, json |-> content])
               @@ out_files

Determined == determine_items_to_extract(items_list, items_to_extract, filings[cur])

\* Skipped with the flag inverted
SkippedInverted ==
  ~skip_extracted_filings /\ OutputPath(filings[cur]) \in DOMAIN out_files

Skipped ==
  skip_extracted_filings /\ OutputPath(filings[cur]) \in DOMAIN out_files

\* json_content with the pass-through metadata (lines 1148-1162)
Metadata(filing_metadata) ==
  [filing_type |-> filing_metadata.Type,
   filing_date |-> filing_metadata.Date,
   filename    |-> filing_metadata.filename,
   items       |-> <<>>]

(***************************************************************************)
(* process_filing, in steps                                                *)
(***************************************************************************)
\* RejectFiling without the try of process_filing: the exception leaves the
\* loop over the filings, no later filing is processed
RejectFilingUncaught ==
  /\ pc = "idle" /\ cur <= Len(filings)
  /\ Determined.raised
  /\ items_list' = Determined.items_list
  /\ items_to_extract' = Determined.items_to_extract
  /\ cur' = Len(filings) + 1
  /\ NoLocals
  /\ UNCHANGED <<download_vars, config_vars, out_files, processed>>

\* determine_items_to_extract raises; process_filing catches and returns 0
RejectFiling ==
  /\ pc = "idle" /\ cur <= Len(filings)
  /\ Determined.raised
  /\ items_list' = Determined.items_list
  /\ items_to_extract' = Determined.items_to_extract
  /\ Return(0)
  /\ UNCHANGED <<download_vars, config_vars, out_files>>

\* the output file exists and skipping is configured (lines 1282-1283)
SkipFiling ==
  /\ pc = "idle" /\ cur <= Len(filings)
  /\ ~Determined.raised
  /\ Skipped
  /\ items_list' = Determined.items_list
  /\ items_to_extract' = Determined.items_to_extract
  /\ Return(0)
  /\ UNCHANGED <<download_vars, config_vars, out_files>>

\* open() of the raw file raises inside extract_items, which returns None
FailRead ==
  /\ pc = "idle" /\ cur <= Len(filings)
  /\ ~Determined.raised /\ ~Skipped
  /\ ~filings[cur].exists
  /\ items_list' = Determined.items_list
  /\ items_to_extract' = Determined.items_to_extract
  /\ Return(0)
  /\ UNCHANGED <<download_vars, config_vars, out_files>>

\* ownership forms: the record is the metadata plus the XML data, if any
ExtractXml ==
  /\ pc = "idle" /\ cur <= Len(filings)
  /\ ~Determined.raised /\ ~Skipped
  /\ filings[cur].exists
  /\ filings[cur].Type \in XmlTypes
  /\ items_list' = Determined.items_list
  /\ items_to_extract' = Determined.items_to_extract
  /\ IF filings[cur].xml_data # <<>>
     THEN /\ WriteFile([Metadata(filings[cur]) EXCEPT !.items = filings[cur].xml_data])
          /\ Return(1)
     ELSE /\ Return(0)
          /\ UNCHANGED out_files
  /\ UNCHANGED <<download_vars, config_vars>>

\* 10-K, 8-K, 10-Q: the text of the document is ready (lines 1173-1217)
BeginExtract ==
  /\ pc = "idle" /\ cur <= Len(filings)
  /\ ~Determined.raised /\ ~Skipped
  /\ filings[cur].exists
  /\ filings[cur].Type \notin XmlTypes
  /\ items_list' = Determined.items_list
  /\ items_to_extract' = Determined.items_to_extract
  /\ text' = IF remove_tables
             THEN remove_html_tables(filings[cur], Determined.items_list)
             ELSE filings[cur].raw
  /\ pc' = IF filings[cur].Type = "10-Q" THEN "parts" ELSE "items"
  /\ positions' = <<>>
  /\ i' = 1
  /\ all_items_null' = TRUE
  /\ json_content' = Metadata(filings[cur])
  /\ UNCHANGED <<download_vars, config_vars, cur, processed, out_files, part_texts,
                 ignore_matches, length_difference, resolved>>

\* get_10q_parts up to the loop (lines 1092-1104)
Get10qParts ==
  /\ pc = "parts"
  /\ \E parts \in {PartsOf(items_list, <<>>)} :
     \E r \in {parse_10q_parts(parts, text, 0)} :
     \E texts \in {check_10q_parts_for_bugs(text, r.texts, r.part_positions)} :
        /\ items_list' = parts
        /\ part_texts' = texts
        /\ ignore_matches' = 1
        /\ length_difference' = Len(texts[part_2]) - Len(texts[part_1])
  /\ pc' = "parts_loop"
  /\ UNCHANGED <<download_vars, config_vars, items_to_extract, cur, processed, out_files, text,
                 positions, i, json_content, all_items_null, resolved>>

\* Get10qRetry whose break keeps the split of the last retry instead of
\* computing the split again without skipped occurrences (lines 1111-1112)
Get10qRetryKept ==
  /\ pc = "parts_loop"
  /\ length_difference > PartImbalance
  /\ \E r \in {parse_10q_parts(items_list, text, ignore_matches)} :
     \E texts \in {check_10q_parts_for_bugs(
                     text, [r.texts EXCEPT ![part_1] = <<>>], r.part_positions)} :
     \E new_length_difference \in {Len(texts[part_2]) - Len(texts[part_1])} :
        IF new_length_difference = length_difference
        THEN /\ part_texts' = texts
             /\ items_list' = item_list_10q
             /\ pc' = "items"
             /\ UNCHANGED <<length_difference, ignore_matches>>
        ELSE /\ part_texts' = texts
             /\ length_difference' = new_length_difference
             /\ ignore_matches' = ignore_matches + 1
             /\ UNCHANGED <<items_list, pc>>
  /\ UNCHANGED <<download_vars, config_vars, items_to_extract, cur, processed, out_files, text,
                 positions, i, json_content, all_items_null, resolved>>

\* one iteration of the loop of get_10q_parts (lines 1105-1120); the break
\* goes on to lines 1122-1123
Get10qRetry ==
  /\ pc = "parts_loop"
  /\ length_difference > PartImbalance
  /\ \E r \in {parse_10q_parts(items_list, text, ignore_matches)} :
     \E texts \in {check_10q_parts_for_bugs(
                     text, [r.texts EXCEPT ![part_1] = <<>>], r.part_positions)} :
     \E new_length_difference \in {Len(texts[part_2]) - Len(texts[part_1])} :
        IF new_length_difference = length_difference
        THEN /\ \E r0 \in {parse_10q_parts(items_list, text, 0)} :
                  part_texts' = check_10q_parts_for_bugs(text, r0.texts, r0.part_positions)
             /\ items_list' = item_list_10q
             /\ pc' = "items"
             /\ UNCHANGED <<length_difference, ignore_matches>>
        ELSE /\ part_texts' = texts
             /\ length_difference' = new_length_difference
             /\ ignore_matches' = ignore_matches + 1
             /\ UNCHANGED <<items_list, pc>>
  /\ UNCHANGED <<download_vars, config_vars, items_to_extract, cur, processed, out_files, text,
                 positions, i, json_content, all_items_null, resolved>>

\* the loop of get_10q_parts ends (lines 1105, 1122-1123)
Get10qDone ==
  /\ pc = "parts_loop"
  /\ length_difference <= PartImbalance
  /\ items_list' = item_list_10q
  /\ pc' = "items"
  /\ UNCHANGED <<download_vars, config_vars, items_to_extract, cur, processed, out_files, text,
                 part_texts, ignore_matches, length_difference,
                 positions, i, json_content, all_items_null, resolved>>

\* Stored keeping only the items that have text
StoredIfText(items, item_index, item_section, requested) ==
  IF requested /\ item_section # <<>>
  THEN (OutputKey(item_index, include_signature) :> item_section) @@ items
  ELSE items

\* lines 1238-1249: the section of a requested item is stored under its key
Stored(items, item_index, item_section, requested) ==
  IF requested
  THEN (OutputKey(item_index, include_signature) :> item_section) @@ items
  ELSE items

\* the iteration of the loop over self.items_list that comes next: its
\* item, the part of a 10-Q item, the ledger and the text that parse_item
\* is given (lines 1219-1226)
CurrentItem == items_list[i]
PreviousItem == IF i = 1 THEN Last(items_list) ELSE items_list[i - 1]
InPart == Contains(CurrentItem, <<"p","a","r","t">>)
CurrentPart == split(CurrentItem, <<"_","_">>)[1]
\* CurrentPositions without the reset of lines 1223-1224
CurrentPositionsKept == positions

CurrentPositions ==
  IF InPart /\ i # 1 /\ split(PreviousItem, <<"_","_">>)[1] # CurrentPart
  THEN <<>> ELSE positions
CurrentText == IF InPart THEN part_texts[CurrentPart] ELSE text
\* lines 1231-1232: the SIGNATURE of a 10-Q is the text of its part
FromParts == Contains(PreviousItem, <<"p","a","r","t">>) /\ CurrentItem = SIGNATURE

\* lines 1228-1230: the text of the part is stored once
WithPart(items) ==
  IF InPart /\ CurrentPart \notin DOMAIN items
  THEN (CurrentPart :> remove_multiple_lines(part_texts[strip(CurrentPart)])) @@ items
  ELSE items

\* lines 1231-1234
CurrentResult ==
  IF FromParts
  THEN [item_section |-> part_texts[CurrentItem],
        positions |-> CurrentPositions, err |-> FALSE, kind |-> "part",
        span_start |-> -1, span_end |-> -1,
        occurs |-> FALSE, candidates |-> FALSE]
  ELSE parse_item(CurrentText, CurrentItem,
                  SubSeq(items_list, i + 1, Len(items_list)),
                  CurrentPositions, 0, items_list)

\* ExtractItem resolving the requested items only: an item that is not in
\* items_to_extract is passed over, and the ledger stays as it is
ExtractItemRequested ==
  /\ pc = "items" /\ i <= Len(items_list)
  /\ \E r \in {IF InList(CurrentItem, items_to_extract)
               THEN CurrentResult
               ELSE [item_section |-> <<>>, positions |-> positions, err |-> FALSE,
                     kind |-> "none", span_start |-> -1, span_end |-> -1,
                     occurs |-> FALSE, candidates |-> FALSE]} :
     \E item_section \in {remove_multiple_lines(strip(r.item_section))} :
        IF r.err
        THEN /\ Return(0)
             /\ UNCHANGED out_files
        ELSE /\ text' = CurrentText
             /\ positions' = r.positions
             /\ all_items_null' =
                  (all_items_null
                   /\ ~(InList(CurrentItem, items_to_extract) /\ item_section # <<>>))
             /\ json_content' =
                  [json_content EXCEPT !.items =
                     Stored(WithPart(json_content.items), CurrentItem, item_section,
                            InList(CurrentItem, items_to_extract))]
             /\ resolved' = Append(resolved,
                  [item_index |-> CurrentItem, text |-> CurrentText,
                   before |-> CurrentPositions, result |-> r,
                   section |-> item_section])
             /\ i' = i + 1
             /\ UNCHANGED <<cur, processed, out_files, pc, part_texts,
                            ignore_matches, length_difference>>
  /\ UNCHANGED <<download_vars, config_vars, self_vars>>

\* one iteration of the loop over self.items_list (lines 1220-1249); an
\* exception ends extract_items with None (lines 1257-1259)
ExtractItem ==
  /\ pc = "items" /\ i <= Len(items_list)
  /\ \E r \in {CurrentResult} :
     \E item_section \in {remove_multiple_lines(strip(r.item_section))} :
        IF r.err
        THEN /\ Return(0)
             /\ UNCHANGED out_files
        ELSE /\ text' = CurrentText
             /\ positions' = r.positions
             /\ all_items_null' =
                  (all_items_null
                   /\ ~(InList(CurrentItem, items_to_extract) /\ item_section # <<>>))
             /\ json_content' =
                  [json_content EXCEPT !.items =
                     Stored(WithPart(json_content.items), CurrentItem, item_section,
                            InList(CurrentItem, items_to_extract))]
             /\ resolved' = Append(resolved,
                  [item_index |-> CurrentItem, text |-> CurrentText,
                   before |-> CurrentPositions, result |-> r,
                   section |-> item_section])
             /\ i' = i + 1
             /\ UNCHANGED <<cur, processed, out_files, pc, part_texts,
                            ignore_matches, length_difference>>
  /\ UNCHANGED <<download_vars, config_vars, self_vars>>

\* FinishEmpty without the test of all_items_null: the record is returned
\* and written
FinishEmptyWritten ==
  /\ pc = "items" /\ i > Len(items_list)
  /\ all_items_null
  /\ WriteFile(json_content)
  /\ Return(1)
  /\ UNCHANGED <<download_vars, config_vars, self_vars>>

\* no requested item has text: extract_items returns None, nothing is written
FinishEmpty ==
  /\ pc = "items" /\ i > Len(items_list)
  /\ all_items_null
  /\ Return(0)
  /\ UNCHANGED <<download_vars, config_vars, self_vars, out_files>>

\* the record is written to the output file (lines 1289-1292)
FinishWrite ==
  /\ pc = "items" /\ i > Len(items_list)
  /\ ~all_items_null
  /\ WriteFile(json_content)
  /\ Return(1)
  /\ UNCHANGED <<download_vars, config_vars, self_vars>>

Next ==
  \/ RejectFiling
  \/ SkipFiling
  \/ FailRead
  \/ ExtractXml
  \/ BeginExtract
  \/ Get10qParts
  \/ Get10qRetry
  \/ Get10qDone
  \/ ExtractItem
  \/ FinishEmpty
  \/ FinishWrite

(***************************************************************************)
(* Inputs: the documents are normalized texts (what strip_html and         *)
(* clean_text leave unchanged), built from heading and body segments.      *)
(***************************************************************************)
K1 == <<"\n","I","T","E","M"," ","1","."," ","a">>
K1t == <<"\n","I","T","E","M"," ","1",".">>
K1L == <<"\n","I","T","E","M"," ","1","."," ","a"," ","a"," ","a">>
K2 == <<"\n","I","T","E","M"," ","2","."," ","b">>
K2t == <<"\n","I","T","E","M"," ","2",".">>
K3 == <<"\n","I","t","e","m"," ","3","(","c">>
KS == <<"\n","S","I","G","N","A","T","U","R","E","S"," ","d">>
QP1 == <<"\n","P","A","R","T"," ","I">>
QP2 == <<"\n","P","A","R","T"," ","I","I">>
QP1F == <<"\n","P","A","R","T"," ","I"," ","-"," ","F">>
QP2O == <<"\n","P","A","R","T"," ","I","I"," ","-"," ","O">>
Q1 == <<"\n","I","t","e","m"," ","1","."," ","a">>
Q1b == <<"\n","I","t","e","m"," ","1","."," ","b">>
Q2 == <<"\n","I","t","e","m"," ","2","."," ","c">>
QS == <<"\n","S","I","G","N","A","T","U","R","E"," ","d">>
E101 == <<"\n","I","t","e","m"," ","1",".","0","1"," ","a">>
E901 == <<"\n","I","t","e","m"," ","9",".","0","1"," ","b">>
E5 == <<"\n","I","t","e","m"," ","5","."," ","a">>
E7 == <<"\n","I","t","e","m"," ","7","."," ","b">>

Segs10K == {K1, K1t, K2, K3, KS}
Segs10Q == {QP1, QP2, Q1, Q2, QS}

\* the longest generated document, in segments
MaxSegs == 3
\* the longest batch
MaxBatch == 2
\* the length of a long body: more than the imbalance of repair (c)
FillerLen == 5001

Filler == [k \in 1..FillerLen |-> "x"]

RECURSIVE Concat(_)
Concat(ss) == IF ss = <<>> THEN <<>> ELSE Head(ss) \o Concat(Tail(ss))

Docs(segs) == {Concat(ss) : ss \in UNION {[1..n -> segs] : n \in 1..MaxSegs}}

\* a table of contents without titles, then the sections
TocTight == K1t \o K2t \o K1L \o K2
\* a table of contents with titles, then the sections
TocTitled == K1 \o K2 \o K1L \o K2
\* a quarterly report with an Item 1 in each part
TwoParts == QP1 \o Q1 \o QP2 \o Q1b \o QS
\* the same with a table of contents and a long second part
TwoPartsToc == QP1F \o QP2O \o QP1 \o Q1 \o QP2 \o Q1b \o Filler \o QS
\* the same without a table of contents
TwoPartsLong == QP1 \o Q1 \o QP2 \o Q1b \o Filler \o QS

FileA == <<"a",".","t","x","t">>
FileB == <<"b",".","t","x","t">>
FileC == <<"c",".","t","x","t">>
FileD == <<"d",".","t","x","t">>

Filing(type, date, filename, raw) ==
  [Type |-> type, Date |-> date, filename |-> filename, raw |-> raw,
   exists |-> TRUE, xml_data |-> <<>>, is_html |-> FALSE, tables |-> <<>>]

GeneratedFilings ==
  {Filing("10-K", 20200101, FileA, d) : d \in Docs(Segs10K)}
  \cup {Filing("10-Q", 20200101, FileA, d) : d \in Docs(Segs10Q)}

Annual == Filing("10-K", 20200101, FileA, K1 \o K2 \o KS)
EventNew == Filing("8-K", 20040824, FileB, E101 \o E901 \o QS)
EventOld == Filing("8-K", 20040823, FileC, E5 \o E7)
Unsupported == Filing("S-1", 20200101, FileD, K1 \o K2)
Missing == [Filing("10-K", 20200101, FileD, <<>>) EXCEPT !.exists = FALSE]

\* the filings that are put into batches
BatchFilings == {Annual, EventOld, Unsupported, Missing}

ScenarioFilings ==
  BatchFilings \cup {EventNew}
  \cup {Filing("10-K", 20200101, FileA, d) : d \in {TocTight, TocTitled}}
  \cup {Filing("10-Q", 20200101, FileA, TwoParts)}
  \cup {Filing("8-K", 20040822, FileC, E5 \o E7)}
  \cup {[Filing("3", 20200101, FileA, <<"x">>) EXCEPT !.xml_data = x] :
          x \in {<<>>, (<<"i","s","s","u","e","r">> :> <<"x">>)}}

\* quarterly reports with a long second part
LongFilings == {Filing("10-Q", 20200101, FileA, d) : d \in {TwoPartsToc, TwoPartsLong}}

\* the filings that are extracted twice in a row
RepeatedFilings ==
  {Annual, EventNew, Filing("10-K", 20200101, FileA, TocTight),
   Filing("10-Q", 20200101, FileA, TwoParts)}

\* annual reports with a heading that has a space before its letter suffix
K9A == <<"\n","I","T","E","M"," ","9"," ","A","."," ","a">>
K9B == <<"\n","I","T","E","M"," ","9","B","."," ","b">>
SuffixFilings == {Filing("10-K", 20200101, FileA, K9A \o K9B)}

\* a document in which ITEM 1 occurs twice, each time followed at the same
\* distance by a heading of item 2, the second heading written "ITEMS 2."
K1c == <<"\n","I","T","E","M"," ","1","."," ","c">>
K2s == <<"\n","I","T","E","M","S"," ","2","."," ","d">>
EqualSpans == K1 \o K2 \o K1c \o K2s
PluralFilings == {Filing("10-K", 20200101, FileA, EqualSpans)}

\* a document with two signature headings on consecutive lines, the first
\* heading alone on its line
KSh == <<"\n","S","I","G","N","A","T","U","R","E","S",".">>
KSe == <<"\n","S","I","G","N","A","T","U","R","E","S","."," ","e">>
AdjacentSignatures == K1 \o KSh \o KSe
TerminalFilings == {Filing("10-K", 20200101, FileA, AdjacentSignatures)}

\* a quarterly report without the heading of its first part
NoFirstHeading == Q1 \o QP2 \o Q1b \o QS
HeadlessFilings == {Filing("10-Q", 20200101, FileA, NoFirstHeading)}

\* a quarterly report in which a short PART II with its signature stands
\* between PART I and, far behind, the genuine PART II; with and without a
\* line before the heading of PART I
Q1L == <<"\n","I","t","e","m"," ","1","."," ","b"," ","b"," ","b">>
WideGap == QP1 \o Q1 \o QP2 \o Q2 \o QS \o Filler \o QP2 \o Q1L \o QS
WideGapAfterLine == <<"h">> \o WideGap
GapFilings == {Filing("10-Q", 20200101, FileA, d) : d \in {WideGap, WideGapAfterLine}}

\* a quarterly report with two items in each part
TwoItems == QP1 \o Q1 \o Q2 \o QP2 \o Q1b \o Q2 \o QS
TwoItemFilings == {Filing("10-Q", 20200101, FileA, TwoItems)}

\* annual reports with tables: a table of figures, and ITEM 2 laid out as a
\* table, each with or without a colored background, in markup or in plain
\* text
NT == <<"\n","1"," ","2">>
Tabled == K1 \o NT \o K2 \o KS
Table(from, to, colored) == [from |-> from, to |-> to, colored |-> colored]
TableFilings ==
  {[Filing("10-K", 20200101, FileA, Tabled) EXCEPT
      !.is_html = html,
      !.tables = <<Table(Len(K1), Len(K1 \o NT), c1),
                   Table(Len(K1 \o NT), Len(K1 \o NT \o K2), c2)>>] :
     html \in BOOLEAN, c1 \in BOOLEAN, c2 \in BOOLEAN}

\* annual reports whose headings are written in upper and in mixed case
K1m == <<"\n","I","t","e","m"," ","1","."," ","a">>
K2m == <<"\n","I","t","e","m"," ","2","."," ","b">>
MixedNext == K1 \o K2m \o K2
MixedFirst == K1m \o K2m \o K1c \o K2
MixedFilings == {Filing("10-K", 20200101, FileA, d) : d \in {MixedNext, MixedFirst}}

\* batches of distinct filings of one type.  The name of a raw file is
\* <stem>.<extension>, and the stem ends with the accession number of the
\* filing (download_filings.py, line 722): distinct filings have distinct
\* stems.
SameTypeBatches ==
  {<<Annual, Filing("10-K", 20200101, FileB, K1 \o K2)>>,
   <<Filing("10-Q", 20200101, FileB, TwoParts), Filing("10-Q", 20200101, FileC, TwoParts)>>}

\* the items_to_extract of the configuration (<<>> is None: every item)
ConfiguredItems == {<<>>, << <<"1">>, <<"2">> >>, << <<"2">>, SIGNATURE >>}

\* an output file left by an earlier run
OldFile == [filing |-> 0, json |-> <<>>]

Run(fs, items, signature, skip, files) ==
  [filings |-> fs, configured_items |-> items, include_signature |-> signature,
   skip_extracted_filings |-> skip, out_files |-> files, remove_tables |-> FALSE]

Runs ==
  {[Run(<<f>>, <<>>, TRUE, FALSE, <<>>) EXCEPT !.remove_tables = remove] :
     f \in TableFilings, remove \in BOOLEAN}
  \cup
  {Run(<<f>>, <<>>, TRUE, FALSE, <<>>) :
     f \in GeneratedFilings \cup LongFilings \cup SuffixFilings \cup PluralFilings
              \cup TerminalFilings \cup HeadlessFilings \cup GapFilings
              \cup TwoItemFilings \cup MixedFilings}
  \cup {Run(<<f>>, items, signature, skip,
            IF old THEN (OutputPath(f) :> OldFile) ELSE <<>>) :
          f \in ScenarioFilings, items \in ConfiguredItems, signature \in BOOLEAN,
          skip \in BOOLEAN, old \in BOOLEAN}
  \cup {Run(fs, <<>>, TRUE, skip, <<>>) :
          fs \in UNION {[1..n -> BatchFilings] : n \in 2..MaxBatch},
          skip \in BOOLEAN}
  \cup {Run(<<f, f>>, items, TRUE, FALSE, <<>>) :
          f \in RepeatedFilings, items \in ConfiguredItems}
  \cup {Run(fs, <<>>, TRUE, skip, <<>>) : fs \in SameTypeBatches, skip \in BOOLEAN}

(***************************************************************************)
(* Downloader (src/download_filings.py, main): the metadata file           *)
(***************************************************************************)
\* A row of the metadata is named by its html_index, a number.  A file is
\* absent, or holds rows; whole is false while to_csv is still writing it.
NoFile == [exists |-> FALSE, rows |-> <<>>, whole |-> FALSE]
Csv(rows) == [exists |-> TRUE, rows |-> rows, whole |-> TRUE]
Torn(rows) == [exists |-> TRUE, rows |-> rows, whole |-> FALSE]

\* lines 196-200: the rows kept from the old metadata, then the rows of the
\* filings crawled so far
final_df == old_df \o final_series

\* lines 139-143: the rows of the old metadata whose raw file exists
KeptRows(rows) == SelectSeq(rows, LAMBDA r : r \in raw_files)

\* lines 153-158: the new indices that are not in the old metadata
ToDownload(kept) == SelectSeq(df, LAMBDA r : ~InList(r, kept))

\* lines 131-177
ReadMetadata ==
  /\ d_pc = "start"
  /\ IF metadata_file.exists
     THEN /\ old_df' = KeptRows(metadata_file.rows)
          /\ list_of_series' = ToDownload(KeptRows(metadata_file.rows))
          /\ d_pc' = IF ToDownload(KeptRows(metadata_file.rows)) = <<>>
                     THEN "exit" ELSE "crawl"
     ELSE /\ old_df' = <<>>
          /\ list_of_series' = df
          /\ d_pc' = "crawl"
  /\ UNCHANGED <<df, final_series, metadata_file, temp_file, raw_files, found_metadata>>
  /\ UNCHANGED <<config_vars, self_vars, local_vars, cur, processed, out_files, pc>>

\* lines 183-194: crawl saves the raw file and returns the row, or returns
\* None
Crawl ==
  /\ d_pc = "crawl" /\ list_of_series # <<>>
  /\ list_of_series' = Tail(list_of_series)
  /\ \E downloaded \in BOOLEAN :
       IF downloaded
       THEN /\ raw_files' = raw_files \cup {Head(list_of_series)}
            /\ final_series' = Append(final_series, Head(list_of_series))
            /\ d_pc' = "to_csv"
       ELSE UNCHANGED <<raw_files, final_series, d_pc>>
  /\ UNCHANGED <<df, old_df, metadata_file, temp_file, found_metadata>>
  /\ UNCHANGED <<config_vars, self_vars, local_vars, cur, processed, out_files, pc>>

\* DataFrame.to_csv(path) as the file system sees it: the file is truncated,
\* the rows are written one after the other, the file is closed
to_csv(file) ==
  IF ~file.exists \/ file.whole \/ Len(file.rows) > Len(final_df)
     \/ file.rows # SubSeq(final_df, 1, Len(file.rows))
  THEN Torn(<<>>)
  ELSE IF Len(file.rows) < Len(final_df)
  THEN Torn(Append(file.rows, final_df[Len(file.rows) + 1]))
  ELSE Csv(final_df)

\* ToCsv writing the table into the metadata file itself, without a
\* temporary file
ToCsvInPlace ==
  /\ d_pc \in {"to_csv", "writing"}
  /\ metadata_file' = IF d_pc = "to_csv" THEN Torn(<<>>) ELSE to_csv(metadata_file)
  /\ d_pc' = IF d_pc = "writing" /\ to_csv(metadata_file).whole THEN "try_end" ELSE "writing"
  /\ UNCHANGED <<df, old_df, list_of_series, final_series, temp_file, raw_files,
                 found_metadata>>
  /\ UNCHANGED <<config_vars, self_vars, local_vars, cur, processed, out_files, pc>>

\* line 205: final_df.to_csv(temp_filepath), one write at a time
ToCsv ==
  /\ d_pc \in {"to_csv", "writing"}
  /\ temp_file' = IF d_pc = "to_csv" THEN Torn(<<>>) ELSE to_csv(temp_file)
  /\ d_pc' = IF d_pc = "writing" /\ to_csv(temp_file).whole THEN "move" ELSE "writing"
  /\ UNCHANGED <<df, old_df, list_of_series, final_series, metadata_file, raw_files,
                 found_metadata>>
  /\ UNCHANGED <<config_vars, self_vars, local_vars, cur, processed, out_files, pc>>

\* line 208: shutil.move renames the temporary file, in one step of the
\* file system (both files are in one folder)
Move ==
  /\ d_pc = "move"
  /\ metadata_file' = temp_file
  /\ temp_file' = NoFile
  /\ d_pc' = "try_end"
  /\ UNCHANGED <<df, old_df, list_of_series, final_series, raw_files, found_metadata>>
  /\ UNCHANGED <<config_vars, self_vars, local_vars, cur, processed, out_files, pc>>

\* the try statement of lines 204-208 ends and the loop goes on
EndTry ==
  /\ d_pc = "try_end"
  /\ d_pc' = "crawl"
  /\ UNCHANGED <<df, old_df, list_of_series, final_series, metadata_file, temp_file,
                 raw_files, found_metadata>>
  /\ UNCHANGED <<config_vars, self_vars, local_vars, cur, processed, out_files, pc>>

\* line 209: Ctrl + C while the try statement runs starts the handler
KeyboardInterrupt ==
  /\ d_pc \in {"to_csv", "writing", "move", "try_end"}
  /\ d_pc' = "except"
  /\ UNCHANGED <<df, old_df, list_of_series, final_series, metadata_file, temp_file,
                 raw_files, found_metadata>>
  /\ UNCHANGED <<config_vars, self_vars, local_vars, cur, processed, out_files, pc>>

\* line 210: the handler writes the temporary file again
HandlerToCsv ==
  /\ d_pc \in {"except", "except_writing"}
  /\ temp_file' = IF d_pc = "except" THEN Torn(<<>>) ELSE to_csv(temp_file)
  /\ d_pc' = IF d_pc = "except_writing" /\ to_csv(temp_file).whole
             THEN "except_move" ELSE "except_writing"
  /\ UNCHANGED <<df, old_df, list_of_series, final_series, metadata_file, raw_files,
                 found_metadata>>
  /\ UNCHANGED <<config_vars, self_vars, local_vars, cur, processed, out_files, pc>>

\* lines 211-215: the handler moves the file and exits
HandlerMove ==
  /\ d_pc = "except_move"
  /\ metadata_file' = temp_file
  /\ temp_file' = NoFile
  /\ d_pc' = "exit"
  /\ UNCHANGED <<df, old_df, list_of_series, final_series, raw_files, found_metadata>>
  /\ UNCHANGED <<config_vars, self_vars, local_vars, cur, processed, out_files, pc>>

\* the process ends where it is: Ctrl + C outside the try statement or in
\* the handler, a signal, a power cut
Killed ==
  /\ d_pc \notin {"off", "exit", "done", "dead"}
  /\ d_pc' = "dead"
  /\ UNCHANGED <<df, old_df, list_of_series, final_series, metadata_file, temp_file,
                 raw_files, found_metadata>>
  /\ UNCHANGED <<config_vars, self_vars, local_vars, cur, processed, out_files, pc>>

\* lines 217-223: every filing was tried
Finish ==
  /\ d_pc = "crawl" /\ list_of_series = <<>>
  /\ d_pc' = "done"
  /\ UNCHANGED <<df, old_df, list_of_series, final_series, metadata_file, temp_file,
                 raw_files, found_metadata>>
  /\ UNCHANGED <<config_vars, self_vars, local_vars, cur, processed, out_files, pc>>

DownloadNext ==
  \/ ReadMetadata
  \/ Crawl
  \/ ToCsv
  \/ Move
  \/ EndTry
  \/ KeyboardInterrupt
  \/ HandlerToCsv
  \/ HandlerMove
  \/ Killed
  \/ Finish

\* the greatest html_index of the new indices
MaxIndex == 3

\* the rows in S, in increasing order
RECURSIVE Sorted(_)
Sorted(S) == IF S = {} THEN <<>> ELSE <<Min(S)>> \o Sorted(S \ {Min(S)})

\* the downloader is not running
DownloaderOff ==
  /\ d_pc = "off"
  /\ df = <<>> /\ old_df = <<>> /\ list_of_series = <<>> /\ final_series = <<>>
  /\ metadata_file = NoFile /\ temp_file = NoFile
  /\ raw_files = {} /\ found_metadata = NoFile

\* the extractor is not running
ExtractorOff ==
  /\ filings = <<>> /\ configured_items = <<>> /\ include_signature = FALSE
  /\ skip_extracted_filings = FALSE /\ out_files = <<>> /\ remove_tables = FALSE
  /\ items_to_extract = <<>> /\ items_list = <<>>
  /\ cur = 1 /\ processed = <<>> /\ pc = "off"
  /\ text = <<>> /\ part_texts = <<>> /\ ignore_matches = 0
  /\ length_difference = 0 /\ positions = <<>> /\ i = 0
  /\ json_content = <<>> /\ all_items_null = TRUE /\ resolved = <<>>

\* main starts with or without a metadata file of an earlier run, some of
\* whose raw files may be gone, and with new indices
DownloadInit ==
  /\ ExtractorOff
  /\ \E old \in SUBSET (1..(MaxIndex - 1)) : \E new \in SUBSET (1..MaxIndex) :
     \E present \in SUBSET (1..(MaxIndex - 1)) : \E file \in BOOLEAN :
       /\ new # {}
       /\ file \/ old = {}
       /\ metadata_file = IF file THEN Csv(Sorted(old)) ELSE NoFile
       /\ found_metadata = metadata_file
       /\ raw_files = present
       /\ df = Sorted(new)
  /\ d_pc = "start"
  /\ old_df = <<>> /\ list_of_series = <<>> /\ final_series = <<>>
  /\ temp_file = NoFile

DownloadSpec == DownloadInit /\ [][DownloadNext]_vars

Init ==
  /\ \E run \in Runs :
       /\ filings = run.filings
       /\ configured_items = run.configured_items
       /\ include_signature = run.include_signature
       /\ skip_extracted_filings = run.skip_extracted_filings
       /\ out_files = run.out_files
       /\ remove_tables = run.remove_tables
  /\ items_to_extract = configured_items
  /\ items_list = <<>>
  /\ cur = 1
  /\ processed = <<>>
  /\ pc = "idle"
  /\ text = <<>>
  /\ part_texts = <<>>
  /\ ignore_matches = 0
  /\ length_difference = 0
  /\ positions = <<>>
  /\ i = 0
  /\ json_content = <<>>
  /\ all_items_null = TRUE
  /\ resolved = <<>>
  /\ DownloaderOff

Spec == Init /\ [][Next]_vars


(***************************************************************************)
(* Properties                                                              *)
(***************************************************************************)
\* the heading of an item starts at offset p of the text t
HeadingAt(item_index, t, p, delim) ==
  /\ p \in 0..(Len(t) - 1)
  /\ Ends(HeadingRe(adjust_item_patterns(item_index), delim), t, p, TRUE) # <<>>

\* the heading of an item occurs somewhere in the text t
Occurs(item_index, t) ==
  \E p \in NewlineOffsets(t) : HeadingAt(item_index, t, p, DelimPair)

\* documents with a table of contents that mentions ITEM 1 and ITEM 2, then
\* the genuine ITEM 1 with its body, then the genuine ITEM 2
TocCases ==
  {[toc |-> K1t \o K2t, section |-> K1L, next |-> K2],
   [toc |-> K1 \o K2,   section |-> K1L, next |-> K2]}

\* C1 -- ToC disambiguation: in a document whose table of contents mentions
\* ITEM 1 immediately followed by ITEM 2, and which later has the genuine
\* ITEM 1 heading with a long body before the genuine ITEM 2, the section
\* resolved for ITEM 1 is the long span that starts at the genuine heading,
\* not the one that starts at the table of contents.
C1_TocDisambiguation ==
  \A n \in 1..Len(resolved) : \A c \in TocCases :
    (resolved[n].item_index = <<"1">>
       /\ resolved[n].text = c.toc \o c.section \o c.next)
    => /\ resolved[n].result.span_start = Len(c.toc)
       /\ resolved[n].result.item_section = c.section

\* C2 -- Monotonic coverage: of two items resolved one after the other in
\* schema order on the same text, the span of the later item starts at or
\* after the end of the span of the earlier one, so the spans of different
\* items never overlap and never regress.
C2_MonotonicCoverage ==
  \A m, n \in 1..Len(resolved) :
    (m < n /\ resolved[m].text = resolved[n].text
       /\ resolved[m].result.kind \in {"span", "open"}
       /\ resolved[n].result.kind \in {"span", "open"})
    => resolved[n].result.span_start >= resolved[m].result.span_end

\* C3 -- Selected candidate: when parse_item selects a candidate span, the
\* returned section is exactly the text from the start of the item's matched
\* heading up to, and excluding, the matched heading of a later item of the
\* schema, and the position just before that next heading is appended to the
\* ledger.
C3_SelectedSpan ==
  \A n \in 1..Len(resolved) :
    resolved[n].result.kind = "span"
    => /\ HeadingAt(items_list[n], resolved[n].text,
                    resolved[n].result.span_start, DelimPair)
       /\ \E k \in (n + 1)..Len(items_list) :
             HeadingAt(items_list[k], resolved[n].text,
                       resolved[n].result.span_end, DelimHeading)
       /\ resolved[n].result.span_start < resolved[n].result.span_end
       /\ resolved[n].result.item_section =
            SubSeq(resolved[n].text, resolved[n].result.span_start + 1,
                   resolved[n].result.span_end)
       /\ resolved[n].result.positions =
            Append(resolved[n].before, resolved[n].result.span_end - 1)

\* a span was selected for an item while the ledger was not empty
C3_Witness ==
  \E n \in 1..Len(resolved) :
    /\ resolved[n].result.kind = "span"
    /\ resolved[n].before # <<>>
    /\ resolved[n].section # <<>>

\* C4 -- Open-ended match: when the heading of an item occurs in the text
\* and no candidate span to any later item of the schema exists, the section
\* returned for it runs from an occurrence of the heading to the end of the
\* document.
C4_OpenEndedMatch ==
  \A n \in 1..Len(resolved) :
    (resolved[n].result.occurs /\ ~resolved[n].result.candidates)
    => /\ resolved[n].result.kind = "open"
       /\ HeadingAt(items_list[n], resolved[n].text,
                    resolved[n].result.span_start, DelimPair)
       /\ resolved[n].result.item_section =
            strip(SubSeq(resolved[n].text, resolved[n].result.span_start + 1,
                         Len(resolved[n].text)))

\* C5 -- Absence: resolving an item whose heading never occurs in the text
\* gives the empty section and raises no exception, whatever the ledger
\* holds and whatever was resolved for the other items.
C5_Absence ==
  [][(pc = "items" /\ i <= Len(items_list) /\ ~FromParts
        /\ ~Occurs(CurrentItem, CurrentText))
     => /\ pc' = "items" /\ i' = i + 1 /\ cur' = cur
        /\ Len(resolved') = i
        /\ resolved'[i].result.item_section = <<>>
        /\ resolved'[i].section = <<>>
        /\ positions' = CurrentPositions]_vars

\* an absent item was resolved after a section of another item had been
\* recorded in the ledger
C5_Witness ==
  \E n \in 1..Len(resolved) :
    /\ resolved[n].result.kind = "none"
    /\ ~Occurs(resolved[n].item_index, resolved[n].text)
    /\ resolved[n].before # <<>>
    /\ resolved[n].section = <<>>

\* a 10-Q with an Item 1 in each part: the document, the section A of the
\* Item 1 of Part I and the section B of the Item 1 of Part II
PartCases ==
  {[doc |-> TwoParts,     A |-> Tail(Q1), B |-> Tail(Q1b)],
   [doc |-> TwoPartsLong, A |-> Tail(Q1), B |-> Tail(Q1b) \o Filler],
   [doc |-> TwoPartsToc,  A |-> Tail(Q1), B |-> Tail(Q1b) \o Filler]}

\* C6 -- Part isolation: for a 10-Q whose PART I contains "Item 1" with text
\* A and whose PART II contains "Item 1" with text B, part_1_item_1 holds A
\* and part_2_item_1 holds B.
C6_PartIsolation ==
  \A c \in PartCases :
    (pc = "items" /\ i > Len(items_list)
       /\ filings[cur].Type = "10-Q" /\ filings[cur].raw = c.doc
       /\ InList(PartItem(part_1, <<"1">>), items_to_extract)
       /\ InList(PartItem(part_2, <<"1">>), items_to_extract))
    => /\ json_content.items[OutputKey(PartItem(part_1, <<"1">>), include_signature)] = c.A
       /\ json_content.items[OutputKey(PartItem(part_2, <<"1">>), include_signature)] = c.B

\* the keys under which a record may hold an item: item_<identifier>,
\* <part>_item_<identifier>, or the bare SIGNATURE
KeyForms(item_index) ==
  IF item_index = SIGNATURE
  THEN {SIGNATURE, <<"i","t","e","m","_">> \o SIGNATURE}
  ELSE IF Contains(item_index, <<"_","_">>)
  THEN {split(item_index, <<"_","_">>)[1] \o <<"_","i","t","e","m","_">>
        \o split(item_index, <<"_","_">>)[2]}
  ELSE {<<"i","t","e","m","_">> \o item_index}

\* the characters of a text, and the space that replaces its newlines
Chars(t) == {t[k] : k \in 1..Len(t)} \cup {" "}

\* C7 -- Completeness-or-emptiness: in every returned record each identifier
\* of items_to_extract has its key present, mapped to the section resolved
\* for it, which is a string, the empty one when the item is absent.
C7_Completeness ==
  (pc = "items" /\ i > Len(items_list))
  => \A n \in 1..Len(items_list) :
       InList(items_list[n], items_to_extract)
       => \E key \in KeyForms(items_list[n]) :
            /\ key \in DOMAIN json_content.items
            /\ json_content.items[key] = resolved[n].section
            /\ json_content.items[key] \in Seq(Chars(filings[cur].raw))
            /\ (resolved[n].result.kind # "part"
                  /\ ~Occurs(items_list[n], resolved[n].text))
               => json_content.items[key] = <<>>

\* a record is returned that holds a requested item with text and a
\* requested item without
C7_Witness ==
  /\ pc = "items" /\ i > Len(items_list) /\ ~all_items_null
  /\ \E m, n \in 1..Len(items_list) :
       /\ InList(items_list[m], items_to_extract)
       /\ InList(items_list[n], items_to_extract)
       /\ resolved[m].section # <<>>
       /\ resolved[n].section = <<>>
       /\ ~Occurs(items_list[n], resolved[n].text)

\* the items that a new extractor with no items configured would extract
FullSchema(filing_metadata) ==
  determine_items_to_extract(<<>>, <<>>, filing_metadata).items_to_extract

\* C8 -- No cross-filing state: what is extracted for a filing does not
\* depend on the filings extracted before it; with no items configured every
\* filing is extracted against the full schema of its own type.
C8_NoCrossFilingState ==
  (configured_items = <<>> /\ pc # "idle")
  => items_to_extract = FullSchema(filings[cur])

\* every requested item of the current filing came out empty
AllRequestedEmpty ==
  \A n \in 1..Len(resolved) :
    InList(resolved[n].item_index, items_to_extract) => resolved[n].section = <<>>

\* C9 -- NoSectionsExtracted: when every requested item of a filing comes
\* out empty, or an XML filing yields no data, no record is produced:
\* process_filing returns 0 and writes no output file.
C9_NoSectionsExtracted ==
  [][(\/ pc = "items" /\ i > Len(items_list) /\ AllRequestedEmpty
      \/ /\ pc = "idle" /\ cur <= Len(filings)
         /\ filings[cur].Type \in XmlTypes /\ filings[cur].xml_data = <<>>)
     => /\ processed' = Append(processed, 0)
        /\ out_files' = out_files
        /\ cur' = cur + 1]_vars

\* a 10-K that exists and is not skipped, with a heading in its text, was
\* extracted and gave 0 and no file
C9_Witness ==
  /\ Len(filings) = 1 /\ cur = 2 /\ processed = <<0>>
  /\ filings[1].Type = "10-K" /\ filings[1].exists
  /\ Occurs(<<"1">>, filings[1].raw)
  /\ configured_items = <<>>
  /\ out_files = <<>>

\* extracting the current filing raises: its type has no schema, none of the
\* configured items is in its schema, or its file cannot be read
Raises ==
  /\ pc = "idle" /\ cur <= Len(filings)
  /\ \/ filings[cur].Type \notin {"10-K", "8-K", "10-Q"} \cup XmlTypes
     \/ /\ items_to_extract # <<>>
        /\ \A k \in 1..Len(items_to_extract) :
             ~InList(items_to_extract[k], FullSchema(filings[cur]))
     \/ ~Skipped /\ ~filings[cur].exists

\* C10 -- PerFilingException: an exception raised while a filing is
\* extracted is caught inside process_filing, which returns 0 and writes no
\* output file for that filing; the next filing of the batch is then
\* processed.
C10_PerFilingException ==
  [][Raises => /\ processed' = Append(processed, 0)
               /\ out_files' = out_files
               /\ cur' = cur + 1
               /\ pc' = "idle"]_vars

\* a filing raised and the filing after it was extracted and written
C10_Witness ==
  /\ Len(filings) = 2 /\ cur = 3
  /\ ~filings[1].exists \/ filings[1].Type = "S-1"
  /\ processed = <<0, 1>>
  /\ OutputPath(filings[2]) \in DOMAIN out_files
  /\ out_files[OutputPath(filings[2])].filing = 2

\* the schemas of the filing types, by the name of the type
KnownTypes == {"10-K", "8-K", "10-Q"} \cup XmlTypes

\* the filing has no schema, or none of the configured items is in the
\* schema of its type
SchemaMismatch(filing_metadata) ==
  \/ filing_metadata.Type \notin KnownTypes
  \/ /\ configured_items # <<>>
     /\ \A k \in 1..Len(configured_items) :
          ~InList(configured_items[k], FullSchema(filing_metadata))

\* C11 -- SchemaMismatch: a filing whose type has no known item schema, or
\* for which none of the user-specified items belongs to the schema of its
\* type, is rejected: determine_items_to_extract raises to its caller and no
\* item is extracted for that filing.
C11_SchemaMismatch ==
  [][(pc = "idle" /\ cur <= Len(filings) /\ SchemaMismatch(filings[cur]))
     => /\ Determined.raised
        /\ pc' = "idle" /\ resolved' = <<>> /\ json_content' = <<>>
        /\ processed' = Append(processed, 0)
        /\ out_files' = out_files]_vars

\* a 10-Q was rejected because the configured items are items of a 10-K
C11_Witness ==
  /\ Len(filings) = 1 /\ cur = 2 /\ processed = <<0>>
  /\ filings[1].Type = "10-Q" /\ filings[1].exists
  /\ configured_items # <<>>
  /\ SchemaMismatch(filings[1])
  /\ out_files = <<>>

\* C12 -- Skip-if-exists: when skipping of already extracted filings is
\* configured and the output file of a filing exists, process_filing returns
\* 0 without running the extraction and leaves the output file unchanged.
C12_SkipIfExists ==
  [][(pc = "idle" /\ cur <= Len(filings) /\ skip_extracted_filings
        /\ OutputPath(filings[cur]) \in DOMAIN out_files)
     => /\ processed' = Append(processed, 0)
        /\ out_files' = out_files
        /\ pc' = "idle" /\ cur' = cur + 1
        /\ resolved' = <<>> /\ json_content' = <<>>]_vars

\* a 10-K that could have been extracted was skipped, its old output file
\* is still there
C12_Witness ==
  /\ Len(filings) = 1 /\ cur = 2 /\ processed = <<0>>
  /\ skip_extracted_filings
  /\ filings[1].Type = "10-K" /\ filings[1].exists
  /\ ~SchemaMismatch(filings[1])
  /\ Occurs(<<"2">>, filings[1].raw)
  /\ OutputPath(filings[1]) \in DOMAIN out_files
  /\ out_files[OutputPath(filings[1])] = OldFile

\* C13 -- Idempotence of resolution: when the same extractor resolves the
\* same normalized text against the same schema twice, the second result is
\* the first: the same return value and the same record, item sections
\* included.
C13_Idempotence ==
  [][(cur' = cur + 1 /\ cur >= 2 /\ filings[cur] = filings[cur - 1]
        /\ ~skip_extracted_filings)
     => /\ processed'[cur] = processed[cur - 1]
        /\ processed[cur - 1] = 1
           => /\ OutputPath(filings[cur]) \in DOMAIN out_files
              /\ out_files'[OutputPath(filings[cur])].json
                   = out_files[OutputPath(filings[cur])].json]_vars

\* a 10-Q was extracted twice and written twice, with items that have text
C13_Witness ==
  /\ Len(filings) = 2 /\ cur = 3 /\ filings[1] = filings[2]
  /\ filings[1].Type = "10-Q"
  /\ processed = <<1, 1>>
  /\ out_files[OutputPath(filings[2])].filing = 2
  /\ \E key \in DOMAIN out_files[OutputPath(filings[2])].json.items :
       out_files[OutputPath(filings[2])].json.items[key] # <<>>

\* C14 -- Schema selection for 8-K: an 8-K is resolved against the obsolete
\* 8-K schema exactly when its filing date is prior to August 23, 2004, and
\* against the current 8-K schema otherwise.
C14_SchemaSelection8K ==
  (pc = "items" /\ filings[cur].Type = "8-K")
  => items_list = IF filings[cur].Date < obsolete_cutoff_date_8k
                  THEN item_list_8k_obsolete ELSE item_list_8k

\* C15 -- Output keys: in a returned record the terminal section is stored
\* only under the bare key SIGNATURE, and only when include_signature is
\* enabled; every other requested item is stored under item_<identifier>,
\* or <part>_item_<identifier> for a 10-Q identifier.
C15_OutputKeys ==
  pc = "items"
  => /\ SIGNATURE \in DOMAIN json_content.items => include_signature
     /\ (<<"i","t","e","m","_">> \o SIGNATURE) \notin DOMAIN json_content.items
     /\ \A n \in 1..Len(resolved) :
          (InList(items_list[n], items_to_extract) /\ items_list[n] # SIGNATURE)
          => KeyForms(items_list[n]) \subseteq DOMAIN json_content.items

\* the identifier of an item without its part
Identifier(item_index) ==
  IF Contains(item_index, <<"_","_">>)
  THEN split(item_index, <<"_","_">>)[2] ELSE item_index

\* the line "ITEM <number> <letter>." where the identifier is <number><letter>
SpacedHeading(item_index) ==
  <<"\n","I","T","E","M"," ">>
  \o SubSeq(Identifier(item_index), 1, Len(Identifier(item_index)) - 1)
  \o <<" ", Last(Identifier(item_index)), ".">>

\* C16 -- Pattern Builder whitespace tolerance: the pattern built for an
\* identifier with a letter suffix A, B or C accepts whitespace between the
\* number and the letter: the pattern for "9A" matches the heading
\* "ITEM 9 A" as it matches "ITEM 9A".
C16_WhitespaceTolerance ==
  \A n \in 1..Len(resolved) :
    (resolved[n].item_index # SIGNATURE
       /\ Last(resolved[n].item_index) \in {"A", "B", "C"})
    => \A p \in NewlineOffsets(resolved[n].text) :
         StartsAt(resolved[n].text, SpacedHeading(resolved[n].item_index), p)
         => /\ HeadingAt(resolved[n].item_index, resolved[n].text, p, DelimHeading)
            /\ resolved[n].result.occurs

NextOfSpan(n) ==
  CHOOSE k \in (n + 1)..Len(items_list) :
    HeadingAt(items_list[k], resolved[n].text, resolved[n].result.span_end,
              DelimHeading)

\* the candidate span of the n-th resolved item that starts at offset p and
\* ends at the nearest following heading of the identifier k (<<>> if none)
CandidateAt(n, k, p) ==
  PairAt(HeadingRe(adjust_item_patterns(items_list[n]), DelimPair),
         HeadingRe(adjust_item_patterns(items_list[k]), DelimHeading),
         MatchStarts(HeadingRe(adjust_item_patterns(items_list[k]), DelimHeading),
                     resolved[n].text, TRUE),
         resolved[n].text, p, TRUE)

\* the candidate c does not beat the span from a to b: it is shorter, or as
\* long and not earlier in the document
NotPreferred(c, a, b) ==
  \/ c.g1 - c.start < b - a
  \/ c.g1 - c.start = b - a /\ a <= c.start

\* C18 -- Selection rule: the span selected for an item is, among the
\* candidate spans that start at or after the last recorded position, one
\* with the greatest distance from the start of the item's heading to the
\* start of the next heading, and the first such span in document order.
C18_SelectionRule ==
  \A n \in 1..Len(resolved) :
    resolved[n].result.kind = "span"
    => \A p \in NewlineOffsets(resolved[n].text) :
         (resolved[n].before # <<>> => p >= Last(resolved[n].before))
         => \A j \in 1..Len(CandidateAt(n, NextOfSpan(n), p)) :
              NotPreferred(CandidateAt(n, NextOfSpan(n), p)[j],
                           resolved[n].result.span_start,
                           resolved[n].result.span_end)

\* the offsets of the document t at which the heading of the terminal
\* section stands: the SIGNATURE pattern, one of ". - :" or a blank, and one
\* more character
SignatureHeadings(t) ==
  {p \in NewlineOffsets(t) :
     Ends(HeadingRe(adjust_item_patterns(SIGNATURE), DelimLast) \o <<AnyChar>>,
          t, p, TRUE) # <<>>}

\* C19 -- Terminal section: a section resolved for SIGNATURE that is not
\* empty is the text of the filing from the last occurrence of the signature
\* heading, never an earlier one, to the end of the document (without the
\* blanks around it).
C19_TerminalSection ==
  \A n \in 1..Len(resolved) :
    (resolved[n].item_index = SIGNATURE /\ resolved[n].result.item_section # <<>>)
    => /\ SignatureHeadings(filings[cur].raw) # {}
       /\ resolved[n].result.item_section =
            strip(Slice(filings[cur].raw, Max(SignatureHeadings(filings[cur].raw)),
                        Len(filings[cur].raw)))

\* the later identifiers of the schema with which an occurrence of the n-th
\* resolved item can be paired: a heading of the identifier follows it
Pairable(n) ==
  {k \in (n + 1)..Len(items_list) :
     \E p \in NewlineOffsets(resolved[n].text) : CandidateAt(n, k, p) # <<>>}

\* the span from a to b pairs the n-th resolved item with the identifier k:
\* it starts at a heading of the item and ends where a later heading of k
\* starts (which of the headings of k it is, is the matter of C28)
SpanWith(n, k, a, b) ==
  /\ a \in NewlineOffsets(resolved[n].text)
  /\ HeadingAt(items_list[n], resolved[n].text, a, DelimPair)
  /\ a < b
  /\ HeadingAt(items_list[k], resolved[n].text, b, DelimHeading)

\* C20 -- Next-anchor order: a span selected for an item ends at a heading
\* of the first later identifier, in schema order, with which an occurrence
\* of the item can be paired; identifiers after that one are not tried, and
\* without such an identifier no span is selected.
C20_NextAnchorOrder ==
  resolved # <<>>
  => /\ resolved[Len(resolved)].result.kind = "span"
        => /\ Pairable(Len(resolved)) # {}
           /\ SpanWith(Len(resolved), Min(Pairable(Len(resolved))),
                       resolved[Len(resolved)].result.span_start,
                       resolved[Len(resolved)].result.span_end)
     /\ resolved[Len(resolved)].result.candidates
        => Pairable(Len(resolved)) # {}

\* a span was selected for an item that can also be paired with an
\* identifier after the first one, over a longer span
C20_Witness ==
  /\ resolved # <<>>
  /\ resolved[Len(resolved)].result.kind = "span"
  /\ \E k \in Pairable(Len(resolved)) :
       /\ k > Min(Pairable(Len(resolved)))
       /\ \E p \in NewlineOffsets(resolved[Len(resolved)].text) :
            /\ CandidateAt(Len(resolved), k, p) # <<>>
            /\ CandidateAt(Len(resolved), k, p)[1].g1 - p >
                 resolved[Len(resolved)].result.span_end
                 - resolved[Len(resolved)].result.span_start

StrictlyIncreasing(s) == \A a, b \in 1..Len(s) : a < b => s[a] < s[b]

\* C21 -- Ledger invariant: the positions recorded while the items of one
\* text are resolved, and those recorded while the parts of a 10-Q are
\* resolved (with every number of skipped occurrences used so far), form a
\* strictly increasing sequence.
C21_LedgerInvariant ==
  /\ StrictlyIncreasing(positions)
  /\ \A n \in 1..Len(resolved) :
       /\ StrictlyIncreasing(resolved[n].result.positions)
       /\ \A k \in 1..Len(resolved[n].before) :
            k <= Len(resolved[n].result.positions)
            /\ resolved[n].result.positions[k] = resolved[n].before[k]
  /\ pc = "parts_loop"
     => \A k \in 0..ignore_matches :
          StrictlyIncreasing(parse_10q_parts(items_list, text, k).part_positions)

\* a position was recorded by a call that was given a ledger that was not
\* empty
C21_Witness ==
  /\ Len(positions) >= 2
  /\ \E n \in 1..Len(resolved) :
       /\ resolved[n].before # <<>>
       /\ resolved[n].result.kind = "span"
       /\ Len(resolved[n].result.positions) = Len(resolved[n].before) + 1

\* the result of parse_10q_parts in the pass whose repaired texts are in
\* part_texts: the pass that skipped ignore_matches - 1 occurrences
PassResult == parse_10q_parts(items_list, text, ignore_matches - 1)

\* the text captured for the first part in that pass, as the repair step
\* receives it (line 1107 empties it in the retry passes)
PassFirstPart ==
  IF ignore_matches = 1 THEN PassResult.texts[part_1] ELSE <<>>

\* the offsets at which the text captured for the second part stands in the
\* document
SecondPartStarts ==
  {p \in NewlineOffsets(text) :
     Slice(text, p, p + Len(PassResult.texts[part_2])) = PassResult.texts[part_2]}

\* C22 -- Part repair (a): after a pass of the partitioner, the initial one
\* or a retry, in which the repair step received no text for the first part,
\* a text for the second part and at least one recorded position, the text
\* of the first part is the document before the place where the captured
\* text of the second part begins.
C22_PartRepairA ==
  (/\ pc = "parts_loop"
   /\ PassFirstPart = <<>>
   /\ PassResult.part_positions # <<>>
   /\ PassResult.texts[part_2] # <<>>)
  => \E p \in SecondPartStarts : part_texts[part_1] = Slice(text, 0, p)

\* the offsets of the document at which the texts captured for the two
\* parts begin and end in the pass, both parts having recorded a position
FirstPartEnd == PassResult.part_positions[1] + 1
FirstPartStart == FirstPartEnd - Len(PassResult.texts[part_1])
SecondPartStart == PassResult.part_positions[2] + 1 - Len(PassResult.texts[part_2])

\* C23 -- Part repair (b): after the initial pass, when both parts recorded
\* a position and a text was captured for the first part, the text of the
\* first part is the document from the heading of the first part to the
\* start of the captured second part if more than 200 characters lie between
\* the end of the first part and the start of the second, and the captured
\* text otherwise.
C23_PartRepairB ==
  (/\ pc = "parts_loop" /\ ignore_matches = 1
   /\ Len(PassResult.part_positions) > 1
   /\ PassResult.texts[part_1] # <<>>)
  => part_texts[part_1] =
       IF SecondPartStart - FirstPartEnd > PartSlack
       THEN SubSeq(text, FirstPartStart + 1, SecondPartStart)
       ELSE PassResult.texts[part_1]

\* the split of the document into parts with no occurrence skipped, and the
\* split of the next retry pass, both after the repair step
SplitSkipping(k) ==
  check_10q_parts_for_bugs(
    text,
    IF k = 0 THEN parse_10q_parts(items_list, text, k).texts
    ELSE [parse_10q_parts(items_list, text, k).texts EXCEPT ![part_1] = <<>>],
    parse_10q_parts(items_list, text, k).part_positions)

Imbalance(texts) == Len(texts[part_2]) - Len(texts[part_1])

\* the offsets of the text t at which a heading of a part stands
PartHeadings(t) ==
  {p \in NewlineOffsets(t) :
     HeadingAt(part_1, t, p, DelimPair) \/ HeadingAt(part_2, t, p, DelimPair)}

\* C24 -- Part repair (c): the retry loop of the partitioner terminates:
\* every pass that stays in the loop skips one more occurrence, and the
\* number of skipped occurrences never exceeds the number of part headings
\* of the document by more than one.  The loop is left with the split it
\* has when the second part does not exceed the first by more than 5000
\* characters; otherwise it is left only when skipping one more occurrence
\* leaves the imbalance unchanged, and then with the split obtained with no
\* occurrence skipped.
C24_RetryLoop ==
  [][pc = "parts_loop"
     => /\ ignore_matches <= Cardinality(PartHeadings(text)) + 1
        /\ pc' \in {"parts_loop", "items"}
        /\ pc' = "parts_loop"
           => /\ length_difference > PartImbalance
              /\ ignore_matches' = ignore_matches + 1
              /\ length_difference' # length_difference
              /\ length_difference' = Imbalance(part_texts')
        /\ pc' = "items"
           => IF length_difference <= PartImbalance
              THEN part_texts' = part_texts
              ELSE /\ Imbalance(SplitSkipping(ignore_matches)) = length_difference
                   /\ part_texts' = SplitSkipping(0)]_vars

\* the loop was left, after at least one retry that changed the imbalance,
\* because one more skipped occurrence did not change it
C24_Witness ==
  /\ pc = "items" /\ filings[cur].Type = "10-Q"
  /\ length_difference > PartImbalance
  /\ ignore_matches >= 2

\* the part of an identifier of a 10-Q (the identifier itself for SIGNATURE)
PartOf(item_index) == split(item_index, <<"_","_">>)[1]

\* C25 -- Ledger reset: in a 10-Q the first item of a part is resolved with
\* an empty ledger, and every other item of the part with the ledger left by
\* the item before it, so that no item of part 2 is held back by a position
\* recorded in part 1.
C25_LedgerReset ==
  \A n \in 1..Len(resolved) :
    (filings[cur].Type = "10-Q" /\ resolved[n].result.kind # "part")
    => resolved[n].before =
         IF n = 1 \/ PartOf(resolved[n - 1].item_index) # PartOf(resolved[n].item_index)
         THEN <<>>
         ELSE resolved[n - 1].result.positions

\* the first item of part 2 was resolved to a span that starts before the
\* last position recorded in part 1
C25_Witness ==
  \E n \in 2..Len(resolved) :
    /\ filings[cur].Type = "10-Q"
    /\ PartOf(resolved[n].item_index) = part_2
    /\ PartOf(resolved[n - 1].item_index) = part_1
    /\ resolved[n - 1].result.positions # <<>>
    /\ resolved[n].result.kind = "span"
    /\ resolved[n].result.span_start < Last(resolved[n - 1].result.positions)

\* the call of parse_item for the first part in the pass that skipped
\* ignore_matches - 1 occurrences (parse_10q_parts, lines 1029-1033)
FirstPartCall ==
  parse_item(text, part_1, SubSeq(items_list, 2, Len(items_list)), <<>>,
             ignore_matches - 1, items_list)

\* the occurrences of the heading of an item in the text t (line 880)
Occurrences(item_index, t) ==
  {p \in NewlineOffsets(t) : HeadingAt(item_index, t, p, DelimHeading)}

\* C26 -- Occurrence skipping: a section returned by parse_item for the
\* first part when it is called with ignore_matches = k > 0 starts after the
\* first k occurrences of the heading of the part.
C26_OccurrenceSkipping ==
  (/\ pc = "parts_loop" /\ ignore_matches >= 2
   /\ FirstPartCall.item_section # <<>>)
  => Cardinality({p \in Occurrences(part_1, text) : p < FirstPartCall.span_start})
       >= ignore_matches - 1

\* the text of the n-th table of the current filing
TableText(n) ==
  Slice(filings[cur].raw, filings[cur].tables[n].from, filings[cur].tables[n].to)

\* C27 -- Table retention: with table removal enabled, the text of a table
\* that holds a line-anchored heading of an item of the schema of the filing
\* is still in the text from which the items are resolved, in markup and in
\* plain text.
C27_TableRetention ==
  (pc = "items" /\ remove_tables)
  => \A n \in 1..Len(filings[cur].tables) :
       (\E k \in 1..Len(items_list) : \E p \in NewlineOffsets(TableText(n)) :
          HeadingAt(items_list[k], TableText(n), p, DelimTable))
       => Contains(text, TableText(n))

\* the first candidate that parse_item gets for the occurrence at offset p
\* of the item resolved last, with the later identifier k (lines 892-904),
\* in offsets of the whole text
FirstPossible(k, p) ==
  [start |-> p + possible(resolved[Len(resolved)].text,
                          adjust_item_patterns(items_list[Len(resolved)]),
                          adjust_item_patterns(items_list[k]), p)[1].start,
   g1    |-> p + possible(resolved[Len(resolved)].text,
                          adjust_item_patterns(items_list[Len(resolved)]),
                          adjust_item_patterns(items_list[k]), p)[1].g1]

\* the span from the occurrence at p to the nearest following heading of k,
\* both headings read without regard to case
NearestSpan(k, p) ==
  [start |-> p, g1 |-> CandidateAt(Len(resolved), k, p)[1].g1]

\* the same with both headings read in the case of the patterns (upper case)
ExactCaseAt(k, q) ==
  PairAt(HeadingRe(adjust_item_patterns(items_list[Len(resolved)]), DelimPair),
         HeadingRe(adjust_item_patterns(items_list[k]), DelimHeading),
         MatchStarts(HeadingRe(adjust_item_patterns(items_list[k]), DelimHeading),
                     resolved[Len(resolved)].text, FALSE),
         resolved[Len(resolved)].text, q, FALSE)

\* the offsets at or after p from which a span in exact case exists
ExactCaseStarts(k, p) ==
  {q \in NewlineOffsets(resolved[Len(resolved)].text) :
     q >= p /\ ExactCaseAt(k, q) # <<>>}

CompleteTables ==
  {Csv(old_df \o SubSeq(final_series, 1, k)) : k \in 1..Len(final_series)}

\* C29 -- Metadata durability: wherever the downloader is, or has been
\* stopped, the metadata file is the file that main found or a complete
\* table of this run, never a file that is still being written; and when
\* the loop goes on after a crawled filing, after the handler, or at the
\* end, it is the table with every filing crawled so far.
C29_MetadataDurability ==
  d_pc # "off"
  => /\ metadata_file \in {found_metadata} \cup CompleteTables
     /\ ~metadata_file.exists \/ metadata_file.whole
     /\ (d_pc \in {"crawl", "done", "exit"} /\ final_series # <<>>)
        => metadata_file = Csv(final_df)

\* the downloader was stopped while it was writing the table of its second
\* crawled filing
C29_Witness ==
  /\ d_pc = "dead"
  /\ Len(final_series) >= 2
  /\ temp_file.exists /\ ~temp_file.whole /\ temp_file.rows # <<>>
  /\ metadata_file = Csv(old_df \o SubSeq(final_series, 1, 1))

\* the item of the schema at place n resolved with the ledger given: what
\* the loop does for it when it is reached with that ledger, whatever the
\* items requested
SchemaResult(n, ledger) ==
  IF Contains(IF n = 1 THEN Last(items_list) ELSE items_list[n - 1], <<"p","a","r","t">>)
     /\ items_list[n] = SIGNATURE
  THEN [item_section |-> part_texts[items_list[n]], positions |-> ledger, err |-> FALSE]
  ELSE parse_item(IF Contains(items_list[n], <<"p","a","r","t">>)
                  THEN part_texts[split(items_list[n], <<"_","_">>)[1]] ELSE text,
                  items_list[n], SubSeq(items_list, n + 1, Len(items_list)),
                  ledger, 0, items_list)

\* the ledger that the item at place n meets when every item before it was
\* resolved, given the results of these items
SchemaLedger(n, results) ==
  IF n = 1 THEN <<>>
  ELSE IF Contains(items_list[n], <<"p","a","r","t">>)
          /\ split(items_list[n - 1], <<"_","_">>)[1] # split(items_list[n], <<"_","_">>)[1]
  THEN <<>>
  ELSE results[n - 1].positions

\* the whole schema resolved in its order, from the item at place n on
RECURSIVE SchemaResults(_, _)
SchemaResults(n, results) ==
  IF Len(results) # n - 1 \/ n > Len(items_list) THEN results
  ELSE SchemaResults(n + 1, Append(results, SchemaResult(n, SchemaLedger(n, results))))

\* the section of the schema resolved at place n
SchemaSection(results, n) == remove_multiple_lines(strip(results[n].item_section))

\* C30 -- Resolution does not depend on the request: the loop resolves the
\* items of the schema one after the other in schema order, the requested
\* and the others alike, and in a returned record the text of a requested
\* item is the section that resolving the whole schema gives for it, the
\* same for every items_to_extract that holds the item.
C30_RequestIndependence ==
  pc = "items"
  => /\ Len(resolved) = i - 1
     /\ \A n \in 1..Len(resolved) :
          resolved[n].item_index = items_list[n]
     /\ i > Len(items_list)
        => \E results \in {SchemaResults(1, <<>>)} :
             \A n \in 1..Len(items_list) :
               InList(items_list[n], items_to_extract)
               => json_content.items[OutputKey(items_list[n], include_signature)]
                    = SchemaSection(results, n)

\* a record is returned for a request that leaves out an item with text;
\* the requested item after it was resolved with the ledger that the item
\* left out had moved
C30_Witness ==
  /\ pc = "items" /\ i > Len(items_list) /\ ~all_items_null
  /\ \E n \in 2..Len(items_list) :
       /\ ~InList(items_list[n - 1], items_to_extract)
       /\ resolved[n - 1].section # <<>>
       /\ InList(items_list[n], items_to_extract)
       /\ resolved[n].before # <<>>
       /\ json_content.items[OutputKey(items_list[n], include_signature)] # <<>>

====
